----------------------------- MODULE ThreadProofs -----------------------------
(* Proofs about the threads that serve the connections on either side: the  *)
(* executer of a client's frames, Receive against the receiving thread, and *)
(* the listening service.  Each has an inductive invariant of its own.      *)
EXTENDS EventExecuter, SyncReceive, Listener, SequenceTheorems, TLAPS

-----------------------------------------------------------------------------
(* For any number of frames and any capacity of the queue: the executer     *)
(* runs the accepted frames once each and in order, and drops a frame only  *)
(* when a whole queue of accepted ones has not been executed.               *)

(* The queue is deleted by the destructor's last step only, and the         *)
(* executing thread holds one event exactly while the handler runs.         *)
QueueIsOpen == open <=> del # "gone"
OneInHand == IF exec = "handle" THEN \E e \in Event : inHand = <<e>>
                                ELSE inHand = <<>>

(* The histories agree with the queue while the queue exists.               *)
ExecuterInv == TypeOK /\ QueueIsOpen /\ OneInHand /\ InOrderOnce

LEMMA InitExecuterInv == Init => ExecuterInv
<1> SUFFICES ASSUME Init PROVE ExecuterInv
  OBVIOUS
<1>1. <<>> \in Seq(Event) /\ Len(<<>>) = 0
  BY EmptySeq
<1>2. TypeOK
  BY <1>1, ExecuterAssumption DEF Init, Queue!FifoInit, TypeOK
<1>3. <<>> \o <<>> \o <<>> = <<>>
  BY <1>1, ConcatEmptySeq
<1>4. InOrderOnce
  BY <1>3 DEF Init, Queue!FifoInit, InOrderOnce
<1> QED
  BY <1>2, <1>4 DEF Init, Queue!FifoInit, ExecuterInv, QueueIsOpen, OneInHand

(* Where an event goes: the end of the queue and of the accepted events     *)
(* when it is put, the handler when it is taken, the executed ones after.   *)
LEMMA PutKeepsOrder ==
  ASSUME NEW done \in Seq(Event), NEW hand \in Seq(Event),
         NEW q \in Seq(Event), NEW e \in Event
  PROVE  done \o hand \o Append(q, e) = Append(done \o hand \o q, e)
<1>1. done \o hand \in Seq(Event) /\ <<e>> \in Seq(Event)
  BY ConcatProperties
<1>2. (done \o hand) \o q \in Seq(Event)
  BY <1>1, ConcatProperties
<1>3. Append(q, e) = q \o <<e>>
  BY AppendIsConcat
<1>4. Append((done \o hand) \o q, e) = ((done \o hand) \o q) \o <<e>>
  BY <1>2, AppendIsConcat
<1>5. ((done \o hand) \o q) \o <<e>> = (done \o hand) \o (q \o <<e>>)
  BY <1>1, ConcatAssociative
<1> QED
  BY <1>3, <1>4, <1>5

LEMMA TakeKeepsOrder ==
  ASSUME NEW done \in Seq(Event), NEW q \in Seq(Event), q # <<>>
  PROVE  done \o <<Head(q)>> \o Tail(q) = done \o <<>> \o q
<1>1. /\ Head(q) \in Event /\ Tail(q) \in Seq(Event)
      /\ Len(Tail(q)) = Len(q) - 1
      /\ \A i \in 1..Len(Tail(q)) : Tail(q)[i] = q[i + 1]
  BY HeadTailProperties
<1>2. <<Head(q)>> \in Seq(Event) /\ Len(<<Head(q)>>) = 1 /\ <<Head(q)>>[1] = q[1]
  BY <1>1
<1>3. <<Head(q)>> \o Tail(q) = q
  <2> DEFINE h == <<Head(q)>>
             t == Tail(q)
  <2>0. h \in Seq(Event) /\ t \in Seq(Event) /\ Len(h) = 1 /\ h[1] = q[1]
    BY <1>1, <1>2
  <2>1. /\ h \o t \in Seq(Event) /\ Len(h \o t) = Len(h) + Len(t)
        /\ \A i \in 1..(Len(h) + Len(t)) :
             (h \o t)[i] = IF i <= Len(h) THEN h[i] ELSE t[i - Len(h)]
    BY <2>0, ConcatProperties
  <2>2. Len(q) \in Nat /\ Len(t) = Len(q) - 1
    BY <1>1
  <2>3. \A i \in 1..Len(t) : t[i] = q[i + 1]
    BY <1>1
  <2> HIDE DEF h, t
  <2>4. Len(h \o t) = Len(q)
    BY <2>0, <2>1, <2>2
  <2>5. \A i \in 1..Len(h \o t) : (h \o t)[i] = q[i]
    BY <2>0, <2>1, <2>2, <2>3, <2>4
  <2>6. h \o t = q
    BY <2>1, <2>4, <2>5, SeqEqual
  <2> QED
    BY <2>6 DEF h, t
<1>4. (done \o <<Head(q)>>) \o Tail(q) = done \o (<<Head(q)>> \o Tail(q))
  BY <1>1, <1>2, ConcatAssociative
<1>5. done \o <<>> = done
  BY ConcatEmptySeq
<1> QED
  BY <1>3, <1>4, <1>5

LEMMA ReturnKeepsOrder ==
  ASSUME NEW done \in Seq(Event), NEW hand \in Seq(Event), NEW q \in Seq(Event)
  PROVE  (done \o hand) \o <<>> \o q = done \o hand \o q
<1>1. done \o hand \in Seq(Event)
  BY ConcatProperties
<1> QED
  BY <1>1, ConcatEmptySeq

(* The receiving thread: an accepted event joins the queue and the history, *)
(* a refused one neither.                                                   *)
LEMMA ExecuteInv ==
  ASSUME ExecuterInv, Execute
  PROVE  ExecuterInv'
<1> USE ExecuterAssumption
<1>0. /\ TypeOK /\ InOrderOnce /\ OneInHand /\ QueueIsOpen
      /\ executed \in Seq(Event) /\ inHand \in Seq(Event) /\ queue \in Seq(Event)
      /\ accepted \in Seq(Event)
  BY DEF ExecuterInv, TypeOK
<1>1. produced + 1 \in Event /\ produced' = produced + 1 /\ produced' \in 0..MaxEvents
  BY <1>0 DEF Execute, TypeOK, Event
<1>2. /\ inHand' = inHand /\ executed' = executed /\ exec' = exec
      /\ del' = del /\ keep' = keep /\ recv' = "signal"
  BY DEF Execute, threadVars
<1>3. CASE Queue!Put(produced + 1)
  <2>1. /\ open /\ open' = open /\ queue' = Append(queue, produced + 1)
        /\ Len(queue) < MaxCount
        /\ accepted' = Append(accepted, produced + 1)
        /\ reply' = [op |-> "Enqueue", ok |-> TRUE, event |-> produced + 1]
    BY <1>3 DEF Execute, Queue!Put
  <2>2. /\ queue' \in Seq(Event) /\ Len(queue') = Len(queue) + 1
        /\ accepted' \in Seq(Event) /\ Len(queue) \in Nat
    BY <1>0, <1>1, <2>1, AppendProperties, LenProperties
  <2>3. TypeOK'
    BY <1>0, <1>1, <1>2, <2>1, <2>2 DEF TypeOK
  <2>4. InOrderOnce'
    <3>1. accepted = executed \o inHand \o queue
      BY <1>0, <2>1 DEF InOrderOnce
    <3>2. executed \o inHand \o Append(queue, produced + 1)
            = Append(executed \o inHand \o queue, produced + 1)
      BY <1>0, <1>1, PutKeepsOrder
    <3> QED
      BY <1>2, <2>1, <3>1, <3>2 DEF InOrderOnce
  <2> QED
    BY <1>0, <1>2, <2>1, <2>3, <2>4 DEF ExecuterInv, OneInHand, QueueIsOpen
<1>4. CASE Queue!Refuse(produced + 1)
  <2>1. /\ open /\ open' = open /\ queue' = queue /\ accepted' = accepted
        /\ reply' = [op |-> "Enqueue", ok |-> FALSE, event |-> produced + 1]
    BY <1>4 DEF Execute, Queue!Refuse
  <2>2. TypeOK'
    BY <1>0, <1>1, <1>2, <2>1 DEF TypeOK
  <2> QED
    BY <1>0, <1>2, <2>1, <2>2 DEF ExecuterInv, OneInHand, QueueIsOpen, InOrderOnce
<1> QED
  BY <1>3, <1>4 DEF Execute

(* The executing thread takes the first event of the queue in hand. *)
LEMMA DoEventInv ==
  ASSUME ExecuterInv, DoEvent
  PROVE  ExecuterInv'
<1> USE ExecuterAssumption
<1>0. /\ TypeOK /\ InOrderOnce /\ OneInHand /\ QueueIsOpen /\ exec = "drain"
      /\ executed \in Seq(Event) /\ queue \in Seq(Event) /\ Len(queue) <= MaxCount
  BY DEF ExecuterInv, TypeOK, DoEvent
<1>1. /\ executed' = executed /\ accepted' = accepted /\ produced' = produced
      /\ del' = del /\ keep' = keep /\ recv' = recv /\ inHand = <<>>
  BY <1>0 DEF DoEvent, histVars, OneInHand
<1>2. CASE Queue!Take /\ exec' = "handle" /\ inHand' = <<reply'.event>>
  <2>1. /\ open /\ open' = open /\ queue' = Tail(queue) /\ queue # <<>>
        /\ reply' = [op |-> "Dequeue", ok |-> TRUE, event |-> Head(queue)]
        /\ inHand' = <<Head(queue)>>
    BY <1>2 DEF Queue!Take
  <2>2. /\ Head(queue) \in Event /\ queue' \in Seq(Event)
        /\ Len(queue') = Len(queue) - 1 /\ Len(queue) \in Nat
    BY <1>0, <2>1, HeadTailProperties, LenProperties
  <2>3. inHand' \in Seq(Event)
    BY <2>1, <2>2
  <2>4. TypeOK'
    BY <1>0, <1>1, <1>2, <2>1, <2>2, <2>3 DEF TypeOK
  <2>5. InOrderOnce'
    BY <1>0, <1>1, <2>1, TakeKeepsOrder DEF InOrderOnce
  <2> QED
    BY <1>0, <1>1, <1>2, <2>1, <2>2, <2>4, <2>5 DEF ExecuterInv, OneInHand, QueueIsOpen
<1>3. CASE Queue!TakeNothing /\ exec' = "check" /\ UNCHANGED inHand
  <2>1. /\ open' = open /\ queue' = queue
        /\ reply' = [op |-> "Dequeue", ok |-> FALSE, event |-> Null]
    BY <1>3 DEF Queue!TakeNothing
  <2>2. TypeOK'
    BY <1>0, <1>1, <1>3, <2>1 DEF TypeOK
  <2> QED
    BY <1>0, <1>1, <1>3, <2>1, <2>2 DEF ExecuterInv, OneInHand, QueueIsOpen, InOrderOnce
<1> QED
  BY <1>2, <1>3 DEF DoEvent

LEMMA HandlerReturnsInv ==
  ASSUME ExecuterInv, HandlerReturns
  PROVE  ExecuterInv'
<1>0. /\ TypeOK /\ InOrderOnce /\ QueueIsOpen
      /\ executed \in Seq(Event) /\ queue \in Seq(Event) /\ inHand \in Seq(Event)
  BY DEF ExecuterInv, TypeOK
<1>1. /\ exec' = "drain" /\ executed' = executed \o inHand /\ inHand' = <<>>
      /\ queue' = queue /\ reply' = reply /\ open' = open /\ accepted' = accepted
      /\ produced' = produced /\ recv' = recv /\ keep' = keep /\ del' = del
  BY DEF HandlerReturns, queueVars
<1>2. executed' \in Seq(Event) /\ inHand' \in Seq(Event)
  BY <1>0, <1>1, ConcatProperties, EmptySeq
<1>3. TypeOK'
  BY <1>0, <1>1, <1>2 DEF TypeOK
<1>4. InOrderOnce'
  BY <1>0, <1>1, ReturnKeepsOrder DEF InOrderOnce
<1> QED
  BY <1>0, <1>1, <1>3, <1>4 DEF ExecuterInv, OneInHand, QueueIsOpen

(* Deleting the queue empties it for good: nothing is promised any more. *)
LEMMA DeleteJoinInv ==
  ASSUME ExecuterInv, DeleteJoin
  PROVE  ExecuterInv'
<1>1. <<>> \in Seq(Event) /\ Len(<<>>) = 0
  BY EmptySeq
<1>2. TypeOK'
  <2>1. /\ queue' = <<>> /\ open' = FALSE /\ del' = "gone"
        /\ UNCHANGED <<reply, exec, inHand, produced, accepted, executed, recv, keep>>
    BY DEF DeleteJoin, Queue!Close, threadVars, histVars
  <2>2. TypeOK
    BY DEF ExecuterInv
  <2>3. queue' \in Seq(Event) /\ Len(queue') <= MaxCount
    BY <1>1, <2>1, ExecuterAssumption
  <2> QED
    BY <2>1, <2>2, <2>3 DEF TypeOK
<1> QED
  BY <1>2 DEF DeleteJoin, Queue!Close, threadVars, histVars, ExecuterInv,
              OneInHand, QueueIsOpen, InOrderOnce

(* The other steps move the threads and touch neither queue nor histories. *)
LEMMA QuietInv ==
  ASSUME ExecuterInv, 
         \/ ExecuteSignal \/ ExecuteDeleted \/ ReceiveEnds
         \/ Check \/ EnterWait \/ SkipWait
         \/ WaitTimeout \/ DeleteBroadcast \/ DeleteFlag \/ UNCHANGED vars
  PROVE  ExecuterInv'
<1>1. UNCHANGED <<queueVars, inHand, histVars>> /\ (exec' = "handle" <=> exec = "handle")
  BY DEF ExecuteSignal, ExecuteDeleted, ReceiveEnds, Check, EnterWait, SkipWait, WaitTimeout,
         DeleteBroadcast, DeleteFlag, vars, threadVars, Wake
<1>t. TypeOK
  BY DEF ExecuterInv
<1>p. exec' \in {"none", "check", "enter", "waiting", "drain", "handle", "exit"}
  BY <1>t DEF TypeOK, ExecuteSignal, ExecuteDeleted, ReceiveEnds, Check, EnterWait, SkipWait, WaitTimeout,
              DeleteBroadcast, DeleteFlag, vars, threadVars, Wake
<1>q. /\ recv' \in {"idle", "signal", "ended", "broken"} /\ keep' \in BOOLEAN
      /\ del' \in {"none", "flag", "join", "gone"}
  BY <1>t DEF TypeOK, ExecuteSignal, ExecuteDeleted, ReceiveEnds, Check, EnterWait, SkipWait, WaitTimeout,
              DeleteBroadcast, DeleteFlag, vars
<1>2. TypeOK'
  BY <1>1, <1>t, <1>p, <1>q DEF TypeOK, queueVars, histVars
<1>3. del' = "gone" <=> del = "gone"
  BY DEF ExecuteSignal, ExecuteDeleted, ReceiveEnds, Check, EnterWait, SkipWait, WaitTimeout,
         DeleteBroadcast, DeleteFlag, vars, threadVars
<1> QED
  BY <1>1, <1>2, <1>3 DEF ExecuterInv, queueVars, histVars, OneInHand, QueueIsOpen, InOrderOnce

(* ExecuterInv is inductive: the invariant behind every theorem below. *)
LEMMA NextExecuterInv == ExecuterInv /\ [Next]_vars => ExecuterInv'
BY ExecuteInv, DoEventInv, HandlerReturnsInv, DeleteJoinInv, QuietInv
DEF Next, ReceiverNext, ThreadNext, DeleteNext

LEMMA SpecExecuterInv == Spec => []ExecuterInv
BY InitExecuterInv, NextExecuterInv, PTL DEF Spec

(* The queue never holds more than MaxCount events, and every field of the  *)
(* executer keeps its type.                                                 *)
THEOREM ExecuterTypeCorrect == Spec => []TypeOK
<1>1. ExecuterInv => TypeOK
  BY DEF ExecuterInv
<1> QED
  BY <1>1, SpecExecuterInv, PTL

(* What was executed, is in the handler and is queued, read in this order,  *)
(* is what was accepted: no accepted frame is lost, run twice or overtaken, *)
(* whatever Execute and ExcuteThread do between each other's steps.         *)
THEOREM AcceptedInOrderOnce == Spec => []InOrderOnce
<1>1. ExecuterInv => InOrderOnce
  BY DEF ExecuterInv
<1> QED
  BY <1>1, SpecExecuterInv, PTL

(* A frame is dropped only with MaxCount accepted frames not executed. *)
THEOREM DropsNothingInWindow == Spec => DropsOnlyBeyondWindow
<1> DEFINE Drop == produced' # produced /\ accepted' = accepted =>
                      Len(accepted) - Len(executed) >= MaxCount
<1>1. ExecuterInv /\ [Next]_vars => [Drop]_vars
  <2> SUFFICES ASSUME ExecuterInv, Next, produced' # produced, accepted' = accepted
               PROVE  Len(accepted) - Len(executed) >= MaxCount
    OBVIOUS
  <2>1. Execute
    BY DEF Next, ReceiverNext, ThreadNext, DeleteNext, ExecuteSignal, ExecuteDeleted,
           ReceiveEnds,
           Check, EnterWait, SkipWait, WaitTimeout, DoEvent, HandlerReturns,
           DeleteBroadcast, DeleteFlag, DeleteJoin, histVars
  <2>2. /\ executed \in Seq(Event) /\ inHand \in Seq(Event) /\ queue \in Seq(Event)
        /\ accepted \in Seq(Event) /\ produced \in Nat
    BY DEF ExecuterInv, TypeOK
  <2>3. ~ Queue!Put(produced + 1)
    <3> SUFFICES ASSUME Queue!Put(produced + 1) PROVE FALSE
      OBVIOUS
    <3>1. accepted' = Append(accepted, produced + 1) /\ produced + 1 \in Event
      BY <2>1, <2>2, ExecuterAssumption DEF Execute, Queue!Put, Event
    <3>2. Len(accepted') = Len(accepted) + 1 /\ Len(accepted) \in Nat
      BY <2>2, <3>1, AppendProperties, LenProperties
    <3> QED
      BY <3>2
  <2>4. open /\ Len(queue) >= MaxCount
    BY <2>1, <2>3 DEF Execute, Queue!Refuse
  <2>5. accepted = (executed \o inHand) \o queue
    BY <2>4 DEF ExecuterInv, InOrderOnce
  <2>6. /\ executed \o inHand \in Seq(Event)
        /\ Len(executed \o inHand) = Len(executed) + Len(inHand)
    BY <2>2, ConcatProperties
  <2>7. Len(accepted) = Len(executed \o inHand) + Len(queue)
    BY <2>2, <2>5, <2>6, ConcatProperties
  <2>8. Len(executed) \in Nat /\ Len(inHand) \in Nat /\ Len(queue) \in Nat
    BY <2>2, LenProperties
  <2> QED
    BY <2>4, <2>6, <2>7, <2>8, ExecuterAssumption
<1> QED
  BY <1>1, SpecExecuterInv, PTL DEF Spec, DropsOnlyBeyondWindow

-----------------------------------------------------------------------------
(* For any types, frames and calls: Receive hands over only a frame of the  *)
(* type it asked for that came after the call began (or the one that was    *)
(* just being stored), and answers true only with a frame in hand (or for   *)
(* the broadcast that was just to come, or after a wakeup without one).     *)

InCall == app # "idle"

(* The frame d, received and seen, answers a call for type w begun at b. *)
Answers(d, w, b) == /\ d <= Len(arrived)
                    /\ \/ d > b.seen /\ arrived[d] = w
                       \/ d = b.seen /\ b.receiver = "store"

(* Bounds and types that go with ReceiveTypeOK. *)
Sizes == /\ Len(arrived) <= MaxArrivals
         /\ began.seen <= Len(arrived)
         /\ receiver = "store" => Len(arrived) > 0
         /\ InCall => want \in Type

(* During a call the slot is armed for its type until it holds a frame, and *)
(* the frame in it or on its way into it answers the call.                  *)
SlotIsTheirs ==
    InCall => /\ receivedType \in {want, None}
              /\ receivedType = None => receivedData # NoData
              /\ receivedData # NoData => Answers(receivedData, want, began)
              /\ receiver = "store" => Answers(Len(arrived), want, began)

(* A caller that was told of a frame finds one, unless the broadcast was    *)
(* that of the frame stored before its call.                                *)
ToldTheTruth ==
    InCall => /\ app = "take" => receivedType = None
              /\ app = "woken" \/ receiver = "notify" =>
                    receivedType = None \/ began.receiver = "notify"

(* The answers given are those of the slot when they were given. *)
ResultsAreTheirs ==
    \A i \in 1..Len(results) : LET r == results[i] IN
       /\ r.got # NoData => Answers(r.got, r.want, r.began)
       /\ r.ok /\ r.began.receiver # "notify" /\ ~r.stray => r.got # NoData

ReceiveInv == ReceiveTypeOK /\ Sizes /\ SlotIsTheirs /\ ToldTheTruth /\ ResultsAreTheirs

LEMMA InitReceiveInv == ReceiveInit => ReceiveInv
<1> SUFFICES ASSUME ReceiveInit PROVE ReceiveInv
  OBVIOUS
<1>1. Len(<<>>) = 0 /\ \A S : <<>> \in Seq(S)
  BY EmptySeq
<1>2. ReceiveTypeOK
  BY <1>1, ReceiveAssumption DEF ReceiveInit, ReceiveTypeOK, Beginning, NoData
<1> QED
  BY <1>1, <1>2, ReceiveAssumption
  DEF ReceiveInit, ReceiveInv, Sizes, SlotIsTheirs, ToldTheTruth, ResultsAreTheirs, InCall, NoData

(* A call may begin whatever the receiving thread is doing. *)
LEMMA BeginInv ==
  ASSUME ReceiveInv, NEW t \in Type, Begin(t)
  PROVE  ReceiveInv'
<1>0. /\ ReceiveTypeOK /\ Sizes /\ ResultsAreTheirs
      /\ Len(arrived) \in Nat /\ arrived \in Seq(Type)
  BY LenProperties DEF ReceiveInv, ReceiveTypeOK
<1>1. /\ receivedType' = t /\ receivedData' = 0 /\ app' = "armed" /\ want' = t
      /\ began' = [seen |-> Len(arrived), receiver |-> receiver]
      /\ receiver' = receiver /\ arrived' = arrived /\ results' = results
  BY DEF Begin, NoData
<1>2. began' \in Beginning
  BY <1>0, <1>1, ReceiveAssumption DEF Sizes, ReceiveTypeOK, Beginning
<1>3. ReceiveTypeOK'
  BY <1>0, <1>1, <1>2, ReceiveAssumption DEF ReceiveTypeOK
<1>4. Sizes'
  BY <1>0, <1>1 DEF Sizes, InCall
<1>5. SlotIsTheirs' /\ ToldTheTruth'
  BY <1>0, <1>1, ReceiveAssumption DEF SlotIsTheirs, ToldTheTruth, Answers, InCall, NoData
<1>6. ResultsAreTheirs'
  BY <1>0, <1>1 DEF ResultsAreTheirs, Answers
<1> QED
  BY <1>3, <1>4, <1>5, <1>6 DEF ReceiveInv

(* What has come stays what it was when another frame comes. *)
LEMMA AnswersStay ==
  ASSUME arrived \in Seq(Type), NEW t \in Type, arrived' = Append(arrived, t),
         NEW d \in Nat, NEW w, NEW b \in Beginning, d > 0, Answers(d, w, b)
  PROVE  Answers(d, w, b)'
<1>1. /\ Len(arrived) \in Nat /\ Len(arrived') = Len(arrived) + 1
      /\ \A i \in 1..Len(arrived) : arrived'[i] = arrived[i]
  BY AppendProperties, LenProperties
<1> QED
  BY <1>1 DEF Answers

LEMMA ArriveInv ==
  ASSUME ReceiveInv, NEW t \in Type, Arrive(t)
  PROVE  ReceiveInv'
<1>0. /\ ReceiveTypeOK /\ Sizes /\ ResultsAreTheirs /\ SlotIsTheirs /\ ToldTheTruth
      /\ arrived \in Seq(Type) /\ began \in Beginning /\ receivedData \in Nat
      /\ receiver = "idle" /\ Len(arrived) < MaxArrivals
  BY DEF ReceiveInv, ReceiveTypeOK, Arrive
<1>1. /\ arrived' = Append(arrived, t)
      /\ receiver' = IF t = receivedType THEN "store" ELSE "idle"
      /\ UNCHANGED <<receivedType, receivedData, app, want, began, results>>
  BY DEF Arrive
<1>2. /\ Len(arrived) \in Nat /\ Len(arrived') = Len(arrived) + 1
      /\ arrived' \in Seq(Type) /\ arrived'[Len(arrived')] = t
  BY <1>0, <1>1, AppendProperties, LenProperties
<1>3. ReceiveTypeOK'
  BY <1>0, <1>1, <1>2 DEF ReceiveTypeOK
<1>4. Sizes'
  <2>1. began.seen \in Nat
    BY <1>0 DEF Beginning
  <2> QED
    BY <1>0, <1>1, <1>2, <2>1, ReceiveAssumption DEF Sizes, InCall
<1>5. SlotIsTheirs'
  <2> SUFFICES ASSUME InCall
               PROVE  /\ receivedType \in {want, None}
                      /\ receivedType = None => receivedData # NoData
                      /\ receivedData # NoData => Answers(receivedData, want, began)'
                      /\ receiver' = "store" => Answers(Len(arrived), want, began)'
    BY <1>1 DEF SlotIsTheirs, InCall
  <2>1. receivedData # NoData => Answers(receivedData, want, began)'
    BY <1>0, <1>1, AnswersStay DEF SlotIsTheirs, NoData, Answers
  <2>2. receiver' = "store" => t = want /\ began.seen < Len(arrived') /\ Len(arrived') <= Len(arrived')
    <3>1. began.seen \in Nat
      BY <1>0 DEF Beginning
    <3> QED
      BY <1>0, <1>1, <1>2, <3>1, ReceiveAssumption DEF SlotIsTheirs, Sizes
  <2>3. receiver' = "store" => Answers(Len(arrived), want, began)'
    <3>1. began.seen \in Nat /\ want' = want /\ began' = began
      BY <1>0, <1>1 DEF Beginning
    <3> QED
      BY <1>2, <2>2, <3>1 DEF Answers
  <2> QED
    BY <1>0, <2>1, <2>3 DEF SlotIsTheirs
<1>6. ToldTheTruth'
  BY <1>0, <1>1 DEF ToldTheTruth, InCall
<1>7. ResultsAreTheirs'
  <2> SUFFICES ASSUME NEW i \in 1..Len(results)
               PROVE  /\ results[i].got # NoData =>
                           Answers(results[i].got, results[i].want, results[i].began)'
                      /\ results[i].ok /\ results[i].began.receiver # "notify"
                           /\ ~results[i].stray => results[i].got # NoData
    BY <1>1 DEF ResultsAreTheirs
  <2>1. results[i] \in [want : Type, ok : BOOLEAN, got : 0..MaxArrivals,
                     began : Beginning, stray : BOOLEAN]
    BY <1>0, ElementOfSeq DEF ReceiveTypeOK
  <2>2. results[i].got \in Nat /\ results[i].began \in Beginning
    BY <2>1
  <2>3. /\ results[i].got # NoData =>
              Answers(results[i].got, results[i].want, results[i].began)
        /\ results[i].ok /\ results[i].began.receiver # "notify" /\ ~results[i].stray
              => results[i].got # NoData
    BY <1>0 DEF ResultsAreTheirs
  <2>4. results'[i] = results[i]
    BY <1>1
  <2>5. ASSUME results[i].got # NoData
        PROVE  Answers(results[i].got, results[i].want, results[i].began)'
    <3> DEFINE d == results[i].got
               w == results[i].want
               b == results[i].began
    <3>1. d \in Nat /\ d > 0 /\ b \in Beginning /\ Answers(d, w, b)
      BY <2>2, <2>3, <2>5 DEF NoData
    <3>2. d' = d /\ w' = w /\ b' = b
      BY <2>4
    <3> HIDE DEF d, w, b
    <3>3. Answers(d, w, b)'
      BY <1>0, <1>1, <3>1, <3>2, AnswersStay
    <3> QED
      BY <3>3 DEF d, w, b
  <2> QED
    BY <2>3, <2>4, <2>5
<1> QED
  BY <1>3, <1>4, <1>5, <1>6, <1>7 DEF ReceiveInv

(* A call answers with what the slot holds, or with nothing. *)
LEMMA ReturnInv ==
  ASSUME ReceiveInv, InCall, NEW ok \in BOOLEAN, NEW got \in {receivedData, NoData},
         Return(ok, got),
         ok /\ began.receiver # "notify" /\ app # "stray" => got # NoData,
         UNCHANGED <<receivedType, receivedData, want, began, receiver, arrived>>
  PROVE  ReceiveInv'
<1> DEFINE r == [want |-> want, ok |-> ok, got |-> got, began |-> began,
                 stray |-> app = "stray"]
           Result == [want : Type, ok : BOOLEAN, got : 0..MaxArrivals,
                      began : Beginning, stray : BOOLEAN]
<1>0. /\ ReceiveTypeOK /\ Sizes /\ SlotIsTheirs /\ ResultsAreTheirs /\ results \in Seq(Result)
      /\ results' = Append(results, r) /\ app' = "idle"
  BY DEF ReceiveInv, ReceiveTypeOK, Return
<1>1. r \in Result
  BY <1>0, ReceiveAssumption DEF Sizes, ReceiveTypeOK, NoData
<1>2. /\ results' \in Seq(Result) /\ Len(results) \in Nat
      /\ Len(results') = Len(results) + 1 /\ results'[Len(results) + 1] = r
      /\ \A i \in 1..Len(results) : results'[i] = results[i]
  BY <1>0, <1>1, AppendProperties, LenProperties
<1>3. ReceiveTypeOK'
  BY <1>0, <1>2 DEF ReceiveTypeOK
<1>4. Sizes' /\ SlotIsTheirs' /\ ToldTheTruth'
  BY <1>0 DEF Sizes, SlotIsTheirs, ToldTheTruth, InCall
<1>5. ResultsAreTheirs'
  <2> SUFFICES ASSUME NEW i \in 1..Len(results')
               PROVE  LET s == results'[i] IN
                        /\ s.got # NoData => Answers(s.got, s.want, s.began)
                        /\ s.ok /\ s.began.receiver # "notify" /\ ~s.stray => s.got # NoData
    BY DEF ResultsAreTheirs, Answers
  <2>1. CASE i = Len(results) + 1
    <3>1. got # NoData => Answers(got, want, began)
      BY <1>0 DEF SlotIsTheirs
    <3> QED
      BY <1>2, <2>1, <3>1
  <2>2. CASE i \in 1..Len(results)
    BY <1>0, <1>2, <2>2 DEF ResultsAreTheirs
  <2> QED
    BY <1>2, <2>1, <2>2
<1> QED
  BY <1>3, <1>4, <1>5 DEF ReceiveInv

(* The ways a call ends: without a clock, after a timeout, with the slot. *)
LEMMA ClockFailsInv ==
  ASSUME ReceiveInv, ClockFails
  PROVE  ReceiveInv'
BY ReturnInv DEF ClockFails, InCall

LEMMA TestExpiredInv ==
  ASSUME ReceiveInv, TestExpired
  PROVE  ReceiveInv'
<1>1. CASE receivedType = None
  BY <1>1 DEF TestExpired, ReceiveInv, ReceiveTypeOK, Sizes, SlotIsTheirs, ToldTheTruth,
              ResultsAreTheirs, Answers, InCall
<1>2. CASE receivedType # None
  BY <1>2, ReturnInv DEF TestExpired, InCall
<1> QED
  BY <1>1, <1>2

LEMMA TakeInv ==
  ASSUME ReceiveInv, Take
  PROVE  ReceiveInv'
<1>1. began.receiver # "notify" /\ app # "stray" => receivedData # NoData
  BY DEF Take, ReceiveInv, SlotIsTheirs, ToldTheTruth, InCall
<1> QED
  BY <1>1, ReturnInv DEF Take, InCall

(* The caller's other steps, and the receiving thread's two. *)
LEMMA WaitInv ==
  ASSUME ReceiveInv, Test \/ WakeByItself \/ ReceiveTimeout
  PROVE  ReceiveInv'
BY DEF Test, WakeByItself, ReceiveTimeout, ReceiveInv, ReceiveTypeOK, Sizes, SlotIsTheirs, ToldTheTruth,
       ResultsAreTheirs, Answers, InCall

LEMMA StoreInv ==
  ASSUME ReceiveInv, Store
  PROVE  ReceiveInv'
<1>0. /\ ReceiveTypeOK /\ Sizes /\ SlotIsTheirs /\ ToldTheTruth /\ ResultsAreTheirs
      /\ Len(arrived) \in Nat /\ arrived \in Seq(Type)
  BY LenProperties DEF ReceiveInv, ReceiveTypeOK
<1>1. /\ receiver = "store" /\ receivedType' = None /\ receivedData' = Len(arrived)
      /\ receiver' = "notify" /\ UNCHANGED <<app, want, began, arrived, results>>
  BY DEF Store
<1>2. Len(arrived) > 0 /\ Len(arrived) \in 0..MaxArrivals
  BY <1>0, <1>1, ReceiveAssumption DEF Sizes
<1>3. ReceiveTypeOK'
  BY <1>0, <1>1, <1>2 DEF ReceiveTypeOK
<1>4. Sizes'
  BY <1>0, <1>1 DEF Sizes, InCall
<1>5. SlotIsTheirs' /\ ToldTheTruth'
  BY <1>0, <1>1, <1>2 DEF SlotIsTheirs, ToldTheTruth, InCall, Answers, NoData
<1>6. ResultsAreTheirs'
  BY <1>0, <1>1 DEF ResultsAreTheirs, Answers
<1> QED
  BY <1>3, <1>4, <1>5, <1>6 DEF ReceiveInv

LEMMA NotifyInv ==
  ASSUME ReceiveInv, Notify
  PROVE  ReceiveInv'
<1>1. /\ receiver = "notify" /\ receiver' = "idle"
      /\ app' = IF app = "waiting" THEN "woken" ELSE app
      /\ UNCHANGED <<receivedType, receivedData, want, began, arrived, results>>
  BY DEF Notify
<1>2. ReceiveTypeOK' /\ Sizes' /\ SlotIsTheirs' /\ ResultsAreTheirs'
  BY <1>1 DEF ReceiveInv, ReceiveTypeOK, Sizes, SlotIsTheirs, ResultsAreTheirs, Answers, InCall
<1>3. ToldTheTruth'
  BY <1>1 DEF ReceiveInv, ToldTheTruth, InCall
<1> QED
  BY <1>2, <1>3 DEF ReceiveInv

LEMMA NextReceiveInv == ReceiveInv /\ [ReceiveNext]_receiveVars => ReceiveInv'
<1>1. ASSUME ReceiveInv, UNCHANGED receiveVars PROVE ReceiveInv'
  BY <1>1 DEF receiveVars, ReceiveInv, ReceiveTypeOK, Sizes, SlotIsTheirs, ToldTheTruth,
              ResultsAreTheirs, Answers, InCall
<1> QED
  BY <1>1, BeginInv, ArriveInv, ClockFailsInv, TestExpiredInv, TakeInv, WaitInv,
     StoreInv, NotifyInv DEF ReceiveNext, AppStep, RecvStep

LEMMA SpecReceiveInv == ReceiveSpec => []ReceiveInv
BY InitReceiveInv, NextReceiveInv, PTL DEF ReceiveSpec

(* The slot, the threads and the histories keep their types. *)
THEOREM ReceiveTypeCorrect == ReceiveSpec => []ReceiveTypeOK
<1>1. ReceiveInv => ReceiveTypeOK
  BY DEF ReceiveInv
<1> QED
  BY <1>1, SpecReceiveInv, PTL

(* Whatever Receive hands over is an answer to this very call: a frame of   *)
(* the type asked for that came after the call began, or the one the        *)
(* receiving thread was just storing.                                       *)
THEOREM NoStaleAnswer == ReceiveSpec => []AnswersAreTheirs
<1>1. ReceiveInv => AnswersAreTheirs
  BY DEF ReceiveInv, ResultsAreTheirs, Answers, AnswersAreTheirs
<1> QED
  BY <1>1, SpecReceiveInv, PTL

(* Receive answers true with a frame, unless the broadcast for an earlier   *)
(* answer was still to come when the call began, or the wait woke by itself.*)
THEOREM TrueHasAFrame == ReceiveSpec => []TrueMeansReceived
<1>1. ReceiveInv => TrueMeansReceived
  BY DEF ReceiveInv, ResultsAreTheirs, TrueMeansReceived
<1> QED
  BY <1>1, SpecReceiveInv, PTL

-----------------------------------------------------------------------------
(* For any number of starts, stops, accepted connections and failures of    *)
(* pthread_create: a listening thread is never created while the one before *)
(* it lives, and nothing listens once StopCommonServer has returned.        *)

(* A listening thread that lives can be seen in its handle, which is what   *)
(* StartCommonServer and StopCommonServer look at.                          *)
HandleHeld == \A k \in Kind : Alive(k) => handle[k] = "set"

(* Between the look at the handles and pthread_create nothing has started.  *)
NothingToReplace ==
    /\ control = "start_udp" => \A k \in Kind : ~Alive(k)
    /\ control = "start_tcp" => ~Alive("tcp")

ServiceInv == ServiceTypeOK /\ HandleHeld /\ NothingToReplace /\ StoppedMeansDeaf

LEMMA InitServiceInv == ServiceInit => ServiceInv
<1> SUFFICES ASSUME ServiceInit PROVE ServiceInv
  OBVIOUS
<1>1. 0 \in 0..Garbage /\ 0 \in 0..accepts \cup {Garbage} /\ 0 \in 0..MaxAccepts /\ 0 \in 0..MaxStarts
  BY ListenerAssumption DEF Garbage, ServiceInit
<1>2. ServiceTypeOK
  BY <1>1 DEF ServiceInit, ServiceTypeOK
<1>3. \A k \in Kind : ~Alive(k)
  BY DEF ServiceInit, Alive
<1> QED
  BY <1>2, <1>3 DEF ServiceInit, ServiceInv, HandleHeld, NothingToReplace, StoppedMeansDeaf

(* StartCommonServer goes on only when both handles are zero. *)
LEMMA StartBeginInv ==
  ASSUME ServiceInv, StartBegin
  PROVE  ServiceInv'
<1>1. /\ UNCHANGED <<handle, listener, slot, inst, socketOf, accepts>>
      /\ control' \in {"exited", "start_udp"} /\ stopAll' = FALSE
      /\ starts < MaxStarts /\ starts' = starts + 1
      /\ control' = "start_udp" => \A k \in Kind : handle[k] # "set"
  BY DEF StartBegin, instVars
<1>2. starts' \in 0..MaxStarts
  BY <1>1, ListenerAssumption DEF ServiceInv, ServiceTypeOK
<1>3. ServiceTypeOK'
  BY <1>1, <1>2 DEF ServiceInv, ServiceTypeOK
<1> QED
  BY <1>1, <1>3 DEF ServiceInv, ServiceTypeOK, HandleHeld, NothingToReplace, StoppedMeansDeaf, Alive

(* pthread_create, with the handle a failure may leave behind. *)
LEMMA CreateInv ==
  ASSUME ServiceInv, StartUdp \/ StartTcp
  PROVE  ServiceInv'
<1>1. PICK k \in Kind : /\ control = Starting[k] 
                        /\ CreateThread(k, Starting[k], IF k = "udp" THEN "start_tcp" ELSE "running")
  BY DEF StartUdp, StartTcp, CreateThread, Starting, Kind
<1>2. ServiceTypeOK /\ HandleHeld /\ NothingToReplace /\ ~Alive(k)
      /\ (control = "start_udp" => \A j \in Kind : ~Alive(j))
      /\ (k = "udp" <=> control = "start_udp") /\ (k = "tcp" <=> control = "start_tcp")
      /\ handle \in [Kind -> {"zero", "set"}]
  BY <1>1 DEF ServiceInv, NothingToReplace, Starting, Kind, ServiceTypeOK
<1>3. UNCHANGED <<stopAll, slot, inst, socketOf, accepts, starts>>
  BY <1>1 DEF CreateThread, instVars
<1>4. PICK h \in {"zero", "set"} : handle' = [handle EXCEPT ![k] = h]
  BY <1>1, ListenerAssumption DEF CreateThread
<1>5. CASE /\ handle' = [handle EXCEPT ![k] = "set"]
           /\ listener' = [listener EXCEPT ![k] = "setup"]
           /\ control' = IF k = "udp" THEN "start_tcp" ELSE "running"
  <2>1. ServiceTypeOK'
    BY <1>2, <1>3, <1>5 DEF ServiceTypeOK, Garbage, Conn
  <2>2. HandleHeld'
    BY <1>2, <1>5 DEF HandleHeld, Alive, ServiceTypeOK
  <2>3. NothingToReplace' /\ StoppedMeansDeaf'
    BY <1>2, <1>5 DEF NothingToReplace, StoppedMeansDeaf, Alive, ServiceTypeOK, Kind
  <2> QED
    BY <2>1, <2>2, <2>3 DEF ServiceInv
<1>6. CASE control' = "failed" /\ UNCHANGED listener
  <2>1. ServiceTypeOK'
    BY <1>2, <1>3, <1>4, <1>6 DEF ServiceTypeOK, Garbage, Conn
  <2>2. HandleHeld'
    BY <1>2, <1>4, <1>6 DEF HandleHeld, Alive
  <2> QED
    BY <1>6, <2>1, <2>2 DEF ServiceInv, NothingToReplace, StoppedMeansDeaf
<1> QED
  BY <1>1, <1>5, <1>6 DEF CreateThread

(* StopCommonServer: it returns when both handles are zero. *)
LEMMA StopInv ==
  ASSUME ServiceInv, StopBegin \/ StopDone
  PROVE  ServiceInv'
<1>1. /\ UNCHANGED <<handle, listener, slot, inst, socketOf, accepts, starts>>
      /\ control' \in {"stopping", "stopped"} /\ stopAll' \in BOOLEAN
      /\ control' = "stopped" => \A k \in Kind : handle[k] = "zero"
  BY DEF StopBegin, StopDone, instVars, ServiceInv, ServiceTypeOK
<1>2. ServiceTypeOK'
  BY <1>1 DEF ServiceInv, ServiceTypeOK, Conn, Garbage
<1> QED
  BY <1>1, <1>2 DEF ServiceInv, HandleHeld, NothingToReplace, StoppedMeansDeaf, Alive

(* A listening thread moves: it lives on, or ends with its handle zeroed.   *)
LEMMA ListenerInv ==
  ASSUME ServiceInv, NEW k \in Kind, LoopStep(k)
  PROVE  ServiceInv'
<1>0. /\ ServiceTypeOK /\ listener[k] \in {"setup", "running", "select", "leaving"}
      /\ Alive(k) /\ handle[k] = "set"
  BY DEF ServiceInv, HandleHeld, LoopStep, SetUp, LoopTop, SelectReturns, LeaveLoop, Alive
<1>1. UNCHANGED <<stopAll, control, slot, socketOf, accepts, starts>>
  BY DEF LoopStep, SetUp, LoopTop, SelectReturns, LeaveLoop, instVars
<1>2. PICK place \in {"running", "select", "leaving", "ended"} :
         /\ listener' = [listener EXCEPT ![k] = place]
         /\ place # "ended" => handle' = handle
         /\ place = "ended" => handle' = [handle EXCEPT ![k] = "zero"]
  BY DEF LoopStep, SetUp, LoopTop, SelectReturns, LeaveLoop
<1>3. inst' \in [Conn -> {"none", "born", "astray", "orphan", "serving", "closing", "ended"}]
  BY <1>0 DEF LoopStep, SetUp, LoopTop, SelectReturns, LeaveLoop, instVars, ServiceTypeOK
<1>4. ServiceTypeOK'
  BY <1>0, <1>1, <1>2, <1>3 DEF ServiceTypeOK, Conn, Garbage
<1>5. HandleHeld'
  BY <1>0, <1>2 DEF ServiceInv, HandleHeld, Alive, ServiceTypeOK
<1>6. \A j \in Kind : Alive(j)' => Alive(j)
  BY <1>0, <1>2 DEF Alive, ServiceTypeOK
<1>7. NothingToReplace' /\ StoppedMeansDeaf'
  BY <1>1, <1>6 DEF ServiceInv, NothingToReplace, StoppedMeansDeaf, Kind
<1> QED
  BY <1>4, <1>5, <1>7 DEF ServiceInv

(* A listener that cannot be set up ends the process. *)
LEMMA SetUpFailsInv ==
  ASSUME ServiceInv, NEW k \in Kind, SetUpFails(k)
  PROVE  ServiceInv'
<1>1. ServiceTypeOK'
  BY DEF SetUpFails, ServiceInv, ServiceTypeOK, Conn, Garbage
<1>2. \A j \in Kind : ~Alive(j)'
  BY DEF SetUpFails, Alive
<1> QED
  BY <1>1, <1>2 DEF SetUpFails, ServiceInv, HandleHeld, NothingToReplace, StoppedMeansDeaf

(* accept keeps the TCP listener alive, its handle with it. *)
LEMMA AcceptInv ==
  ASSUME ServiceInv, Accept \/ AcceptFails
  PROVE  ServiceInv'
<1>0. ServiceTypeOK /\ Alive("tcp") /\ "tcp" \in Kind
  BY DEF ServiceInv, Accept, AcceptFails, Alive, Kind
<1>1. /\ UNCHANGED <<stopAll, handle, control, socketOf, starts>>
      /\ \E place \in {"running", "leaving"} :
            listener' = [listener EXCEPT !["tcp"] = place]
  BY DEF Accept, AcceptFails
<1>2. /\ accepts' \in 0..MaxAccepts /\ slot' \in 0..accepts' \cup {Garbage}
      /\ inst' \in [Conn -> {"none", "born", "astray", "orphan", "serving", "closing", "ended"}]
  <2>1. CASE Accept
    <3>1. /\ accepts + 1 \in 0..MaxAccepts /\ accepts + 1 \in Conn
          /\ accepts' = accepts + 1 /\ slot' = accepts + 1
      BY <1>0, <2>1, ListenerAssumption DEF Accept, ServiceTypeOK, Conn
    <3>2. \E place \in {"born", "orphan"} : inst' = [inst EXCEPT ![accepts + 1] = place]
      BY <2>1 DEF Accept
    <3>3. accepts + 1 \in 0..(accepts + 1)
      BY <1>0 DEF ServiceTypeOK
    <3> QED
      BY <1>0, <3>1, <3>2, <3>3 DEF ServiceTypeOK
  <2>2. CASE AcceptFails
    BY <1>0, <2>2 DEF AcceptFails, ServiceTypeOK, Conn, Garbage
  <2> QED
    BY <2>1, <2>2
<1>3. ServiceTypeOK'
  BY <1>0, <1>1, <1>2 DEF ServiceTypeOK
<1>4. \A j \in Kind : Alive(j)' <=> Alive(j)
  BY <1>0, <1>1 DEF Alive, ServiceTypeOK
<1> QED
  BY <1>0, <1>1, <1>3, <1>4 DEF ServiceInv, HandleHeld, NothingToReplace, StoppedMeansDeaf

(* The instances touch neither the listeners nor their handles. *)
LEMMA InstanceInv ==
  ASSUME ServiceInv, (\E i \in Conn : InstStep(i) \/ ConnectionGone(i)) \/ UNCHANGED serviceVars
  PROVE  ServiceInv'
<1>0. ServiceTypeOK
  BY DEF ServiceInv
<1>1. UNCHANGED <<stopAll, handle, listener, control, slot, accepts, starts>>
  BY DEF InstStep, TakeSocket, PollStop, InstanceEnds, ConnectionGone, serviceVars
<1>2. inst' \in [Conn -> {"none", "born", "astray", "orphan", "serving", "closing", "ended"}]
  BY <1>0 DEF InstStep, TakeSocket, PollStop, InstanceEnds, ConnectionGone, serviceVars, ServiceTypeOK
<1>3. socketOf' \in [Conn -> 0..Garbage]
  <2>1. slot \in 0..Garbage /\ Garbage \in 0..Garbage
    BY <1>0, ListenerAssumption DEF ServiceTypeOK, Garbage
  <2> QED
    BY <1>0, <2>1 DEF InstStep, TakeSocket, PollStop, InstanceEnds, ConnectionGone, serviceVars, ServiceTypeOK
<1>4. ServiceTypeOK'
  BY <1>0, <1>1, <1>2, <1>3 DEF ServiceTypeOK
<1> QED
  BY <1>1, <1>4 DEF ServiceInv, HandleHeld, NothingToReplace, StoppedMeansDeaf, Alive

(* ServiceInv is inductive: the invariant behind every theorem below. *)
LEMMA NextServiceInv == ServiceInv /\ [ServiceNext]_serviceVars => ServiceInv'
BY StartBeginInv, CreateInv, StopInv, ListenerInv, SetUpFailsInv, AcceptInv, InstanceInv
DEF ServiceNext, ControlStep

LEMMA SpecServiceInv == ServiceSpec => []ServiceInv
BY InitServiceInv, NextServiceInv, PTL DEF ServiceSpec

(* The flag, the handles and the threads keep their types. *)
THEOREM ServiceTypeCorrect == ServiceSpec => []ServiceTypeOK
<1>1. ServiceInv => ServiceTypeOK
  BY DEF ServiceInv
<1> QED
  BY <1>1, SpecServiceInv, PTL

(* Once StopCommonServer has returned no thread listens, until the next     *)
(* start.                                                                   *)
THEOREM StopLeavesNobody == ServiceSpec => []StoppedMeansDeaf
<1>1. ServiceInv => StoppedMeansDeaf
  BY DEF ServiceInv
<1> QED
  BY <1>1, SpecServiceInv, PTL

(* StartCommonServer never creates a second TCP or UDP listener. *)
THEOREM OneListenerEach == ServiceSpec => NoSecondListener
<1> DEFINE Replaced == \A k \in Kind : control = Starting[k] /\ handle'[k] = "set" => ~Alive(k)
<1>1. ServiceInv => Replaced
  BY DEF ServiceInv, NothingToReplace, Starting, Kind
<1> QED
  BY <1>1, SpecServiceInv, PTL DEF NoSecondListener

=============================================================================

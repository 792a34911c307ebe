-------------------------- MODULE ClientLinkProofs --------------------------
(* For any number of frames, server threads and digests, and whatever is    *)
(* damaged, times out or is disconnected: each end accepts the frames of    *)
(* the other once each and in order, and Send answers true only for a frame *)
(* that was accepted.                                                       *)
EXTENDS ClientLink, SequenceTheorems, FiniteSetTheorems, TLAPS

Message == DataMessage \cup ReplyMessage
Kind    == {"data", "correct", "error"}
Reply   == {"correct", "error"}
Place   == {"idle", "check", "arm", "disarm", "push", "test", "waiting", "final",
            "refuse", "head", "judge", "reply", "clear", "deal", "mark", "wake",
            "resend", "leave", "ended", "up", "joinbegin", "joining", "done", "stop",
            "drop", "ackout", "ackclear", "shut", "void"}

Reader(e)  == <<"recv", e>>
Senders(e) == IF e = "server" THEN ServerSender ELSE ClientSender

(* Of messages: one of the kinds is among them, at most one is, the frames  *)
(* among them are the n-th.  Of accepted frames: they come before the n-th, *)
(* the n-th is among them, they are in order.                               *)
Has(s, K)    == \E i \in 1..Len(s) : s[i].kind \in K
Few(s, K)    == \A i, j \in 1..Len(s) : s[i].kind \in K /\ s[j].kind \in K => i = j
All(s, n)    == \A i \in 1..Len(s) : s[i].kind = "data" => s[i].of = n
Below(s, n)  == \A i \in 1..Len(s) : s[i] < n
Within(s, n) == \E i \in 1..Len(s) : s[i] = n
Rising(s)    == \A i, j \in 1..Len(s) : i < j => s[i] < s[j]

-----------------------------------------------------------------------------
(* The inductive invariant.                                                 *)

(* Only the holder of _ServerSend_obj sends at the server. *)
Serial == \A t \in ServerSender : pc[t] # "idle" => serial = t

(* Behind CreateFrame a frame has been created, before it there is room for *)
(* one; and but for the moment before SetLastSentBytes the last one created *)
(* is in _last_sent_bytes.                                                  *)
Active   == {"arm", "disarm", "push", "test", "waiting", "final"}
Numbered ==
    \A e \in End : \A t \in Senders(e) :
       /\ pc[t] \in Active => sent[e] # 0
       /\ pc[t] = "check" => sent[e] < MaxFrames(e)
Armed    == \A e \in End : (\A t \in Senders(e) : pc[t] # "arm") => lastSent[e] = sent[e]

(* What a receiving thread works on. *)
Hands ==
    \A e \in End :
       /\ pc[Reader(e)] \in {"judge", "reply", "resend"} => inHand[e] \in DataMessage
       /\ pc[Reader(e)] = "deal" => inHand[e] \in ReplyMessage

(* An end replies on closing only when it has ceased to keep receiving. *)
Closing == \A t \in Thread : pc[t] \in {"joining", "ackout", "ackclear"} => ~keep[Home(t)]

(* Where the one frame of end e, or the reply to it, can be: not sent yet,  *)
(* on its way, at the peer, answered, and being dealt with.                 *)
Sending(e) == \E t \in Senders(e) : pc[t] \in {"arm", "disarm", "push"}
DataIn(e)  == Has(net[Peer(e)], {"data"})
Judging(e) == pc[Reader(Peer(e))] \in {"judge", "reply"}
ReplyIn(e) == Has(net[e], Reply)
Dealing(e) == pc[Reader(e)] \in {"deal", "mark", "resend"}

(* It is in one of these places at most, and in none once _send_succeeded.  *)
OneToken(e) ==
    /\ Few(net[Peer(e)], {"data"}) /\ Few(net[e], Reply)
    /\ Sending(e) => ~DataIn(e) /\ ~Judging(e) /\ ~ReplyIn(e) /\ ~Dealing(e)
    /\ DataIn(e) => ~Judging(e) /\ ~ReplyIn(e) /\ ~Dealing(e)
    /\ Judging(e) => ~ReplyIn(e) /\ ~Dealing(e)
    /\ ReplyIn(e) => ~Dealing(e)
    /\ succeeded[e] => ~DataIn(e) /\ ~Judging(e) /\ ~ReplyIn(e) /\ ~Dealing(e)
    /\ \A t \in Senders(e) : pc[t] = "push" => ~succeeded[e]

(* It is the last frame created. *)
Names(e) ==
    /\ All(net[Peer(e)], sent[e])
    /\ pc[Reader(e)] = "resend" => inHand[e].of = sent[e]
    /\ Judging(e) => inHand[Peer(e)].of = sent[e]

(* It is not accepted yet, or will be sent again. *)
Pending(e) ==
    \/ Sending(e) \/ DataIn(e)
    \/ pc[Reader(Peer(e))] = "judge"
    \/ pc[Reader(Peer(e))] = "reply" /\ inHand[Peer(e)].state # "good"
    \/ Has(net[e], {"error"})
    \/ pc[Reader(e)] = "deal" /\ inHand[e].kind = "error"
    \/ pc[Reader(e)] = "resend"

(* It has been accepted, and Send is told so or about to be. *)
Settled(e) ==
    \/ pc[Reader(Peer(e))] = "reply" /\ inHand[Peer(e)].state = "good"
    \/ Has(net[e], {"correct"})
    \/ pc[Reader(e)] = "deal" /\ inHand[e].kind = "correct"
    \/ pc[Reader(e)] = "mark"
    \/ succeeded[e] /\ \E t \in Senders(e) : pc[t] \in {"test", "waiting", "final"}

(* All frames but the pending one have been accepted; _send_succeeded means *)
(* all of them.                                                             *)
Counted(e) ==
    /\ Pending(e) => Len(accepted[Peer(e)]) + 1 = sent[e]
    /\ Settled(e) \/ (succeeded[e] /\ ~Sending(e)) => Len(accepted[Peer(e)]) = sent[e]

(* All this while the peer keeps receiving: on closing it replies true to   *)
(* whatever frame it has at hand.                                           *)
Direction(e) ==
    keep[Peer(e)] =>
       /\ OneToken(e) /\ Names(e) /\ Counted(e)
       /\ Below(accepted[Peer(e)], sent[e] + 1)
       /\ Pending(e) => Below(accepted[Peer(e)], sent[e])
       /\ Settled(e) => Within(accepted[Peer(e)], sent[e])

(* A frame about to be accepted comes after those accepted, also at an end  *)
(* that is closing.                                                         *)
Judged == \A e \in End : pc[Reader(e)] = "judge" => Below(accepted[e], inHand[e].of)

Control == Serial /\ Numbered /\ Armed /\ Hands /\ Closing

IndInv == /\ TypeOK /\ Control /\ Judged
          /\ \A e \in End : Direction(e)
          /\ AcceptedOnceInOrder /\ TrueMeansAccepted

-----------------------------------------------------------------------------
(* Ends and threads.                                                        *)

LEMMA PeerFacts ==
  /\ Peer("server") = "client" /\ Peer("client") = "server"
  /\ \A e \in End : Peer(e) \in End /\ Peer(e) # e /\ Peer(Peer(e)) = e
  /\ \A e, f \in End : f # e => f = Peer(e)
<1>1. \A e, f \in End : f # e => f = Peer(e)
  BY DEF Peer, End
<1> QED
  BY <1>1 DEF End

LEMMA Homes ==
  /\ \A e \in End : /\ Reader(e) \in Recv /\ Reader(e) \in Thread /\ Home(Reader(e)) = e
                    /\ Reader(e)[2] = e
                    /\ \A f \in End : Reader(f) = Reader(e) => f = e
                    /\ \A t \in Senders(e) : t \in Sender /\ t \in Thread /\ Home(t) = e
                    /\ \A t \in Senders(e) : \A f \in End : t # Reader(f)
  /\ \A r \in Recv : r[2] \in End /\ r = Reader(r[2]) /\ Home(r) = r[2] /\ r \in Thread
  /\ \A t \in Sender : /\ Home(t) \in End /\ t \in Senders(Home(t)) /\ t \in Thread
                       /\ t \notin Recv /\ t \notin Owner
                       /\ \A e \in End : t \in Senders(e) => e = Home(t)
  /\ \A o \in Owner : /\ o[2] \in End /\ o \in Thread /\ o \notin Sender /\ o \notin Recv
                      /\ Home(o) = o[2]
  /\ \A t \in Thread : Home(t) \in End
<1> USE LinkAssumption
<1>1. \A e \in End : Reader(e) \in Recv /\ Reader(e)[2] = e
  BY DEF Reader, Recv
<1>2. \A r \in Recv : r[2] \in End /\ r = Reader(r[2]) /\ r \notin Sender /\ r \notin Owner
  BY DEF Reader, Recv, Owner
<1>3. \A o \in Owner : o[2] \in End /\ o \notin Sender /\ o \notin Recv
  BY DEF Recv, Owner
<1>4. \A r \in Recv \cup Owner : Home(r) = r[2] /\ r \in Thread
  BY <1>2, <1>3 DEF Home, Sender, Thread
<1>5. \A t \in Sender : /\ Home(t) \in End /\ t \in Senders(Home(t)) /\ t \in Thread
                        /\ t \notin Recv /\ t \notin Owner
                        /\ \A e \in End : t \in Senders(e) => e = Home(t)
  BY DEF Home, Senders, Sender, End, Thread
<1>6. \A e \in End : \A t \in Senders(e) : t \in Sender
  BY DEF Senders, Sender
<1>7. \A e \in End : \A t \in Senders(e) : t \in Sender /\ t \in Thread /\ Home(t) = e
  BY <1>5, <1>6
<1>8. \A t \in Thread : Home(t) \in End
  BY <1>2, <1>3, <1>4, <1>5 DEF Thread
<1>9. \A e, f \in End : Reader(f) = Reader(e) => f = e
  BY <1>1
<1>10. \A e \in End : \A t \in Senders(e) : \A f \in End : t # Reader(f)
  BY <1>1, <1>5, <1>7
<1> QED
  BY <1>1, <1>2, <1>3, <1>4, <1>5, <1>7, <1>8, <1>9, <1>10

(* Two senders of one end are never inside Send together. *)
LEMMA Solo ==
  ASSUME Serial, NEW e \in End, NEW t \in Senders(e), NEW u \in Senders(e),
         pc[t] # "idle", pc[u] # "idle"
  PROVE  t = u
BY LinkAssumption DEF Serial, Senders

-----------------------------------------------------------------------------
(* Sequences that grow and shrink by one.                                   *)

LEMMA Grows ==
  ASSUME NEW T, NEW s \in Seq(T), NEW m \in T
  PROVE  /\ Append(s, m) \in Seq(T) /\ Len(Append(s, m)) = Len(s) + 1
         /\ Len(s) \in Nat /\ Append(s, m)[Len(s) + 1] = m
         /\ \A i \in 1..Len(s) : Append(s, m)[i] = s[i]
         /\ \A i \in 1..Len(Append(s, m)) : i \in 1..Len(s) \/ i = Len(s) + 1
BY AppendProperties

LEMMA Shrinks ==
  ASSUME NEW T, NEW s \in Seq(T), s # <<>>
  PROVE  /\ Tail(s) \in Seq(T) /\ Len(Tail(s)) = Len(s) - 1
         /\ Len(s) \in Nat \ {0} /\ Head(s) = s[1] /\ Head(s) \in T
         /\ \A i \in 1..Len(Tail(s)) : Tail(s)[i] = s[i + 1] /\ i + 1 \in 1..Len(s)
BY HeadTailProperties

LEMMA GrowsByKind ==
  ASSUME NEW s \in Seq(Message), NEW m \in Message, NEW K
  PROVE  /\ Has(Append(s, m), K) <=> Has(s, K) \/ m.kind \in K
         /\ Few(s, K) /\ (m.kind \in K => ~Has(s, K)) => Few(Append(s, m), K)
         /\ \A n \in Nat : All(s, n) /\ (m.kind = "data" => m.of = n) => All(Append(s, m), n)
<1>1. Has(Append(s, m), K) <=> Has(s, K) \/ m.kind \in K
  BY Grows DEF Has
<1>2. Few(s, K) /\ (m.kind \in K => ~Has(s, K)) => Few(Append(s, m), K)
  BY Grows DEF Has, Few
<1>3. \A n \in Nat : All(s, n) /\ (m.kind = "data" => m.of = n) => All(Append(s, m), n)
  BY Grows DEF All
<1> QED
  BY <1>1, <1>2, <1>3

LEMMA ShrinksByKind ==
  ASSUME NEW s \in Seq(Message), s # <<>>, NEW K
  PROVE  /\ Has(Tail(s), K) => Has(s, K)
         /\ Head(s).kind \in K => Has(s, K) /\ (Few(s, K) => ~Has(Tail(s), K))
         /\ Few(s, K) => Few(Tail(s), K)
         /\ \A n \in Nat : All(s, n) => /\ All(Tail(s), n)
                                        /\ Head(s).kind = "data" => Head(s).of = n
<1>1. Has(Tail(s), K) => Has(s, K)
  BY Shrinks DEF Has
<1>2. Head(s).kind \in K => Has(s, K) /\ (Few(s, K) => ~Has(Tail(s), K))
  BY Shrinks DEF Has, Few
<1>3. Few(s, K) => Few(Tail(s), K)
  BY Shrinks DEF Few
<1>4. \A n \in Nat : All(s, n) => All(Tail(s), n) /\ (Head(s).kind = "data" => Head(s).of = n)
  BY Shrinks DEF All
<1> QED
  BY <1>1, <1>2, <1>3, <1>4

LEMMA AcceptsOneMore ==
  ASSUME NEW a \in Seq(Nat \ {0}), NEW k \in Nat \ {0}
  PROVE  /\ Append(a, k) \in Seq(Nat \ {0}) /\ Len(Append(a, k)) = Len(a) + 1
         /\ Within(Append(a, k), k)
         /\ \A n \in Nat : Within(a, n) => Within(Append(a, k), n)
         /\ \A n \in Nat : Below(a, n) /\ k < n => Below(Append(a, k), n)
         /\ Rising(a) /\ Below(a, k) => Rising(Append(a, k))
<1> DEFINE b == Append(a, k)
<1>0. /\ b \in Seq(Nat \ {0}) /\ Len(b) = Len(a) + 1
      /\ Len(a) \in Nat /\ b[Len(a) + 1] = k
      /\ \A i \in 1..Len(a) : b[i] = a[i]
      /\ \A i \in 1..Len(b) : i \in 1..Len(a) \/ i = Len(a) + 1
  BY Grows
<1> HIDE DEF b
<1>1. Within(b, k) /\ \A n \in Nat : Within(a, n) => Within(b, n)
  BY <1>0 DEF Within
<1>2. \A n \in Nat : Below(a, n) /\ k < n => Below(b, n)
  BY <1>0 DEF Below
<1>3. Rising(a) /\ Below(a, k) => Rising(b)
  <2> SUFFICES ASSUME Rising(a), Below(a, k), NEW i \in 1..Len(b), NEW j \in 1..Len(b), i < j
               PROVE  b[i] < b[j]
    BY DEF Rising
  <2>1. i \in 1..Len(a) /\ b[i] = a[i]
    BY <1>0
  <2>2. CASE j \in 1..Len(a)
    BY <2>1, <2>2, <1>0 DEF Rising
  <2>3. CASE j = Len(a) + 1
    BY <2>1, <2>3, <1>0 DEF Below
  <2> QED
    BY <1>0, <2>2, <2>3
<1> QED
  BY <1>0, <1>1, <1>2, <1>3 DEF b

-----------------------------------------------------------------------------
(* One thread moves; with it senders may wake, and an owner that waits for  *)
(* the receiving thread.                                                    *)

Moves(t, place) ==
    /\ pc' \in [Thread -> Place] /\ pc'[t] = place
    /\ \A u \in Thread \ {t} :
          \/ pc'[u] = pc[u]
          \/ u \in Sender /\ pc[u] = "waiting" /\ pc'[u] = "final"
          \/ u \in Owner /\ pc[u] = "joining" /\ pc'[u] = "ackout"

LEMMA GotoMoves ==
  ASSUME TypeOK, NEW t \in Thread, NEW place \in Place, Goto(t, place)
  PROVE  /\ Moves(t, place) /\ \A u \in Thread \ {t} : pc'[u] = pc[u]
<1>1. pc \in [Thread -> Place]
  BY DEF TypeOK, Place
<1> QED
  BY <1>1 DEF Goto, Moves

LEMMA WakeMoves ==
  ASSUME TypeOK, NEW t \in Thread, NEW place \in Place, NEW e \in End, WakeSenders(e, t, place)
  PROVE  Moves(t, place)
<1>1. pc \in [Thread -> Place] /\ "final" \in Place
  BY DEF TypeOK, Place
<1> QED
  BY <1>1 DEF WakeSenders, Moves

LEMMA LeaveMoves ==
  ASSUME TypeOK, NEW r \in Recv, Leave(r)
  PROVE  Moves(r, "ended")
<1>1. pc \in [Thread -> Place] /\ "ended" \in Place /\ "ackout" \in Place
  BY DEF TypeOK, Place
<1>2. <<"own", r[2]>> \in Owner /\ <<"own", r[2]>> \in Thread /\ r \in Thread /\ <<"own", r[2]>> # r
  BY Homes DEF Owner, Thread, Reader
<1> DEFINE o == <<"own", r[2]>>
<1>3. pc' = [pc EXCEPT ![r] = "ended", ![o] = IF pc[o] = "joining" THEN "ackout" ELSE pc[o]]
  BY DEF Leave
<1> HIDE DEF o
<1> QED
  BY <1>1, <1>2, <1>3 DEF Moves, o

(* What the code of a thread has to keep to for the control parts. *)
LEMMA ControlStays ==
  ASSUME TypeOK, Control, NEW t \in Thread, NEW place, Moves(t, place),
         \/ serial' = serial /\ (pc[t] = "idle" => place = "idle" \/ t \notin ServerSender)
         \/ t \in ServerSender /\ serial = None /\ serial' = t
         \/ serial = t /\ serial' = None /\ place = "idle",
         \A e \in End : \/ sent'[e] = sent[e]
                        \/ t \in Senders(e) /\ pc[t] # "idle" /\ sent'[e] # 0,
         t \in Sender /\ place \in Active => sent'[Home(t)] # 0,
         t \in Sender /\ place = "check" => sent'[Home(t)] < MaxFrames(Home(t)),
         \A e \in End : \/ lastSent'[e] = sent'[e]
                        \/ t \in Senders(e) /\ place = "arm"
                        \/ /\ lastSent'[e] = lastSent[e] /\ sent'[e] = sent[e]
                           /\ t \in Senders(e) => pc[t] # "arm",
         \A e \in End : t # Reader(e) => inHand'[e] = inHand[e],
         \A e \in End : t = Reader(e) =>
            /\ place \in {"judge", "reply", "resend"} => inHand'[e] \in DataMessage
            /\ place = "deal" => inHand'[e] \in ReplyMessage,
         \A e \in End : keep'[e] => keep[e],
         place \in {"joining", "ackout", "ackclear"} => ~keep'[Home(t)]
  PROVE  Control'
<1>1. /\ pc'[t] = place
      /\ \A u \in Thread \ {t} :
            \/ pc'[u] = pc[u]
            \/ u \in Sender /\ pc[u] = "waiting" /\ pc'[u] = "final"
            \/ u \in Owner /\ pc[u] = "joining" /\ pc'[u] = "ackout"
  BY DEF Moves
<1>2. Serial'
  <2> SUFFICES ASSUME NEW u \in ServerSender, pc'[u] # "idle" PROVE serial' = u
    BY DEF Serial
  <2>1. u \in Thread /\ u # None
    BY LinkAssumption DEF Thread, Sender
  <2>2. CASE u = t
    BY <1>1, <2>1, <2>2 DEF Control, Serial
  <2>3. CASE u # t
    BY <1>1, <2>1, <2>3 DEF Control, Serial
  <2> QED
    BY <2>2, <2>3
<1>3. Numbered'
  <2> SUFFICES ASSUME NEW e \in End, NEW u \in Senders(e)
               PROVE  /\ pc'[u] \in Active => sent'[e] # 0
                      /\ pc'[u] = "check" => sent'[e] < MaxFrames(e)
    BY DEF Numbered
  <2>1. u \in Sender /\ u \in Thread /\ u \notin Owner /\ Home(u) = e
    BY Homes
  <2>2. CASE u = t
    BY <1>1, <2>1, <2>2
  <2>3. CASE u # t
    <3>1. pc'[u] \in Active => pc[u] \in Active
      BY <1>1, <2>1, <2>3 DEF Active
    <3>2. pc'[u] = "check" => pc[u] = "check"
      BY <1>1, <2>1, <2>3
    <3>3. t \in Senders(e) /\ pc[t] # "idle" => pc[u] = "idle"
      BY <2>3, Solo DEF Control
    <3> QED
      BY <3>1, <3>2, <3>3 DEF Control, Numbered, Active
  <2> QED
    BY <2>2, <2>3
<1>4. Armed'
  <2> SUFFICES ASSUME NEW e \in End, \A u \in Senders(e) : pc'[u] # "arm"
               PROVE  lastSent'[e] = sent'[e]
    BY DEF Armed
  <2>1. \A u \in Senders(e) : u \in Sender /\ u \in Thread /\ u \notin Owner
    BY Homes
  <2>2. t \in Senders(e) => place # "arm"
    BY <1>1
  <2>3. SUFFICES ASSUME lastSent'[e] = lastSent[e], sent'[e] = sent[e], t \in Senders(e) => pc[t] # "arm"
                 PROVE  lastSent'[e] = sent'[e]
    BY <2>2
  <2>4. \A u \in Senders(e) : pc[u] # "arm"
    BY <1>1, <2>1, <2>3
  <2> QED
    BY <2>3, <2>4 DEF Control, Armed
<1>5. Hands'
  <2> SUFFICES ASSUME NEW e \in End
               PROVE  /\ pc'[Reader(e)] \in {"judge", "reply", "resend"} => inHand'[e] \in DataMessage
                      /\ pc'[Reader(e)] = "deal" => inHand'[e] \in ReplyMessage
    BY DEF Hands, DataMessage, ReplyMessage
  <2>1. Reader(e) \in Thread /\ Reader(e) \in Recv
    BY Homes
  <2>2. CASE t = Reader(e)
    BY <1>1, <2>2
  <2>3. CASE t # Reader(e)
    BY <1>1, <2>1, <2>3 DEF Control, Hands
  <2> QED
    BY <2>2, <2>3
<1>6. Closing'
  <2> SUFFICES ASSUME NEW u \in Thread, pc'[u] \in {"joining", "ackout", "ackclear"}
               PROVE  ~keep'[Home(u)]
    BY DEF Closing, Home
  <2>1. CASE u = t
    BY <1>1, <2>1
  <2>2. CASE u # t
    <3>1. pc[u] \in {"joining", "ackout", "ackclear"}
      BY <1>1, <2>2
    <3> QED
      BY <3>1, Homes DEF Control, Closing
  <2> QED
    BY <2>1, <2>2
<1> QED
  BY <1>2, <1>3, <1>4, <1>5, <1>6 DEF Control

-----------------------------------------------------------------------------
(* What is on its way goes down: fewer frames, fewer replies. *)
FewerData(u, s) ==
    /\ Has(u, {"data"}) => Has(s, {"data"})
    /\ Few(s, {"data"}) => Few(u, {"data"})
    /\ \A n \in Nat : All(s, n) => All(u, n)
FewerReplies(u, s) ==
    /\ \A K \in {Reply, {"correct"}, {"error"}} : Has(u, K) => Has(s, K)
    /\ Few(s, Reply) => Few(u, Reply)

LEMMA FewerIfTail ==
  ASSUME NEW s \in Seq(Message), s # <<>>
  PROVE  FewerData(Tail(s), s) /\ FewerReplies(Tail(s), s)
<1>1. FewerData(Tail(s), s)
  BY ShrinksByKind DEF FewerData
<1>2. FewerReplies(Tail(s), s)
  BY ShrinksByKind DEF FewerReplies
<1> QED
  BY <1>1, <1>2

LEMMA FewerIfOther ==
  ASSUME NEW s \in Seq(Message), NEW m \in Message
  PROVE  /\ m \in DataMessage => FewerReplies(Append(s, m), s)
         /\ m \in ReplyMessage => FewerData(Append(s, m), s)
<1>1. m \in DataMessage => m.kind = "data"
  BY DEF DataMessage
<1>2. m \in ReplyMessage => m.kind # "data"
  BY DEF ReplyMessage
<1>3. m \in DataMessage => FewerReplies(Append(s, m), s)
  BY <1>1, GrowsByKind DEF FewerReplies, Reply
<1>4. m \in ReplyMessage => FewerData(Append(s, m), s)
  BY <1>2, GrowsByKind DEF FewerData
<1> QED
  BY <1>3, <1>4

LEMMA FewerIfSame ==
  ASSUME NEW s PROVE FewerData(s, s) /\ FewerReplies(s, s)
BY DEF FewerData, FewerReplies

(* A frame may go down with the connection, or its Send give up: a step     *)
(* that puts nothing into a new place keeps Direction.                      *)
LEMMA DirectionStays ==
  ASSUME TypeOK, NEW e \in End, NEW f \in End, f = Peer(e), Direction(e),
         keep'[f] => keep[f],
         FewerData(net'[f], net[f]), FewerReplies(net'[e], net[e]),
         sent'[e] = sent[e], accepted'[f] = accepted[f],
         succeeded'[e] => succeeded[e],
         Sending(e)' => Sending(e),
         \A u \in Senders(e) : pc[u] \in {"arm", "disarm"} =>
                                  ~succeeded'[e] \/ pc'[u] \in {"arm", "disarm", "push"},
         \A u \in Senders(e) : pc'[u] = "push" => ~succeeded'[e] \/ pc[u] = "push",
         \A u \in Senders(e) : pc'[u] \in {"test", "waiting", "final"} =>
                                  ~succeeded'[e] \/ pc[u] \in {"test", "waiting", "final"},
         pc'[Reader(f)] \in {"judge", "reply"} =>
            pc'[Reader(f)] = pc[Reader(f)] /\ inHand'[f] = inHand[f],
         pc'[Reader(e)] \in {"deal", "mark", "resend"} =>
            pc'[Reader(e)] = pc[Reader(e)] /\ inHand'[e] = inHand[e]
  PROVE  Direction(e)'
<1> SUFFICES ASSUME keep'[f] PROVE Direction(e)'
  BY DEF Direction
<1>1. /\ OneToken(e) /\ Names(e) /\ Counted(e)
      /\ Below(accepted[f], sent[e] + 1)
      /\ Pending(e) => Below(accepted[f], sent[e])
      /\ Settled(e) => Within(accepted[f], sent[e])
  BY DEF Direction
<1>2. (DataIn(e)' => DataIn(e)) /\ (ReplyIn(e)' => ReplyIn(e))
  BY DEF FewerData, FewerReplies, DataIn, ReplyIn
<1>3. (Judging(e)' => Judging(e)) /\ (Dealing(e)' => Dealing(e))
  BY DEF Judging, Dealing
<1>4. Few(net'[f], {"data"}) /\ Few(net'[e], Reply) /\ All(net'[f], sent'[e])
  BY <1>1 DEF OneToken, Names, FewerData, FewerReplies, TypeOK
<1>5. OneToken(e)'
  BY <1>1, <1>2, <1>3, <1>4 DEF OneToken
<1>6. Names(e)'
  BY <1>1, <1>3, <1>4 DEF Names, Judging
<1>7. Pending(e)' => Pending(e)
  BY <1>2 DEF Pending, FewerReplies
<1>8. Settled(e)' => Settled(e)
  BY DEF Settled, FewerReplies
<1>9. succeeded'[e] /\ ~Sending(e)' => succeeded[e] /\ ~Sending(e)
  BY <1>1 DEF Sending, OneToken
<1>10. Counted(e)'
  BY <1>1, <1>7, <1>8, <1>9 DEF Counted
<1> QED
  BY <1>1, <1>5, <1>6, <1>7, <1>8, <1>10 DEF Direction

-----------------------------------------------------------------------------
(* The steps that move no frame, accept nothing and take nothing in hand.   *)
LEMMA QuietInv ==
  ASSUME IndInv, TypeOK', NEW t \in Thread, NEW place, Moves(t, place),
         UNCHANGED <<net, inHand, sent, accepted>>,
         place \notin {"judge", "reply", "deal", "mark", "resend"},
         \/ serial' = serial /\ (pc[t] = "idle" => place = "idle" \/ t \notin ServerSender)
         \/ t \in ServerSender /\ serial = None /\ serial' = t
         \/ serial = t /\ serial' = None /\ place = "idle",
         place \in {"arm", "disarm", "push"} => pc[t] \in {"arm", "disarm", "push"},
         place = "check" => sent[Home(t)] < MaxFrames(Home(t)),
         place = "push" => ~succeeded'[Home(t)],
         place \in {"test", "waiting", "final"} => pc[t] \in {"test", "waiting", "final"},
         pc[t] \in {"arm", "disarm"} => place \in {"arm", "disarm", "push"},
         \A e \in End : \/ lastSent'[e] = sent[e]
                        \/ lastSent'[e] = lastSent[e] /\ (t \in Senders(e) => pc[t] # "arm"),
         \A e \in End : (keep'[e] => keep[e]) /\ (succeeded'[e] => succeeded[e]),
         place \in {"joining", "ackout", "ackclear"} => ~keep'[Home(t)],
         \A e \in End : \A n \in confirmed'[e] :
            \/ n \in confirmed[e]
            \/ n = sent[e] /\ succeeded[e] /\ t \in Senders(e) /\ pc[t] \in {"test", "final"}
  PROVE  IndInv'
<1>0. /\ TypeOK /\ Control /\ Judged /\ \A e \in End : Direction(e)
      /\ AcceptedOnceInOrder /\ TrueMeansAccepted
  BY DEF IndInv
<1>1. /\ pc'[t] = place
      /\ \A u \in Thread \ {t} :
            \/ pc'[u] = pc[u]
            \/ u \in Sender /\ pc[u] = "waiting" /\ pc'[u] = "final"
            \/ u \in Owner /\ pc[u] = "joining" /\ pc'[u] = "ackout"
  BY DEF Moves
<1>2. \A e \in End : \A u \in Senders(e) :
         /\ pc'[u] \in {"arm", "disarm", "push"} => pc[u] \in {"arm", "disarm", "push"}
         /\ pc'[u] = "push" => ~succeeded'[e] \/ pc[u] = "push"
         /\ pc'[u] \in {"test", "waiting", "final"} => pc[u] \in {"test", "waiting", "final"}
         /\ pc[u] \in {"arm", "disarm"} => pc'[u] \in {"arm", "disarm", "push"}
  <2> SUFFICES ASSUME NEW e \in End, NEW u \in Senders(e)
               PROVE /\ pc'[u] \in {"arm", "disarm", "push"} => pc[u] \in {"arm", "disarm", "push"}
                     /\ pc'[u] = "push" => ~succeeded'[e] \/ pc[u] = "push"
                     /\ pc'[u] \in {"test", "waiting", "final"} => pc[u] \in {"test", "waiting", "final"}
                     /\ pc[u] \in {"arm", "disarm"} => pc'[u] \in {"arm", "disarm", "push"}
    OBVIOUS
  <2>1. u \in Thread /\ Home(u) = e
    BY Homes
  <2>2. CASE u = t
    BY <1>1, <2>1, <2>2
  <2>3. CASE u # t
    BY <1>1, <2>1, <2>3
  <2> QED
    BY <2>2, <2>3
<1>3. \A e \in End : pc'[Reader(e)] \in {"judge", "reply", "deal", "mark", "resend"} =>
                        pc'[Reader(e)] = pc[Reader(e)]
  <2> SUFFICES ASSUME NEW e \in End, pc'[Reader(e)] \in {"judge", "reply", "deal", "mark", "resend"}
               PROVE  pc'[Reader(e)] = pc[Reader(e)]
    OBVIOUS
  <2>1. Reader(e) \in Thread
    BY Homes
  <2> QED
    BY <1>1, <2>1
<1>4. Control'
  <2>1. t \in Sender /\ place \in Active => sent'[Home(t)] # 0
    <3> SUFFICES ASSUME t \in Sender, place \in Active PROVE sent[Home(t)] # 0
      OBVIOUS
    <3>1. pc[t] \in Active
      BY DEF Active
    <3> QED
      BY <1>0, <3>1, Homes DEF Control, Numbered
  <2>2. \A e \in End : \/ lastSent'[e] = sent'[e]
                       \/ /\ lastSent'[e] = lastSent[e] /\ sent'[e] = sent[e]
                          /\ t \in Senders(e) => pc[t] # "arm"
    OBVIOUS
  <2> QED
    BY <1>0, <2>1, <2>2, ControlStays
<1>5. Judged'
  <2> SUFFICES ASSUME NEW e \in End, pc'[Reader(e)] = "judge" PROVE Below(accepted[e], inHand[e].of)
    BY DEF Judged, Below
  <2> QED
    BY <1>0, <1>3 DEF Judged
<1>6. ASSUME NEW e \in End PROVE Direction(e)'
  <2>1. Peer(e) \in End
    BY PeerFacts
  <2>2. Sending(e)' => Sending(e)
    BY <1>2 DEF Sending
  <2>3. FewerData(net'[Peer(e)], net[Peer(e)]) /\ FewerReplies(net'[e], net[e])
    BY FewerIfSame
  <2> QED
    BY <1>0, <1>2, <1>3, <2>1, <2>2, <2>3, DirectionStays
<1>7. AcceptedOnceInOrder'
  BY <1>0 DEF AcceptedOnceInOrder
<1>8. TrueMeansAccepted'
  <2> SUFFICES ASSUME NEW e \in End, NEW n \in confirmed'[e], keep'[Peer(e)]
               PROVE  \E i \in 1..Len(accepted[Peer(e)]) : accepted[Peer(e)][i] = n
    BY DEF TrueMeansAccepted
  <2>0. Peer(e) \in End /\ keep[Peer(e)]
    BY PeerFacts
  <2>1. CASE n \in confirmed[e]
    BY <1>0, <2>0, <2>1 DEF TrueMeansAccepted
  <2>2. CASE n = sent[e] /\ succeeded[e] /\ t \in Senders(e) /\ pc[t] \in {"test", "final"}
    <3>1. Settled(e)
      BY <2>2 DEF Settled
    <3> QED
      BY <1>0, <2>0, <2>2, <3>1 DEF Direction, Within
  <2> QED
    BY <2>1, <2>2
<1> QED
  BY <1>4, <1>5, <1>6, <1>7, <1>8 DEF IndInv

(* Those that touch _socket, _keep_running_thread and the reply's digest at *)
(* most.                                                                    *)
LEMMA PlainInv ==
  ASSUME IndInv, TypeOK', NEW t \in Thread, NEW place, Moves(t, place),
         UNCHANGED <<serial, lastSent, succeeded, net, inHand, histVars>>,
         pc[t] \notin {"idle", "arm", "disarm"},
         place \notin {"judge", "reply", "deal", "mark", "resend",
                       "check", "arm", "disarm", "push"},
         place \in {"test", "waiting", "final"} => pc[t] \in {"test", "waiting", "final"},
         \A e \in End : keep'[e] => keep[e],
         place \in {"joining", "ackout", "ackclear"} => ~keep'[Home(t)]
  PROVE  IndInv'
BY QuietInv DEF histVars

LEMMA FinishInv ==
  ASSUME IndInv, NEW t \in Sender, NEW ok \in BOOLEAN, Finish(t, ok),
         UNCHANGED <<endVars, net, inHand, sent, damaged, accepted>>,
         condLock' \in [End -> Sender \cup {None}],
         ok => succeeded[Home(t)] /\ pc[t] \in {"test", "final"},
         pc[t] \notin {"arm", "disarm"}
  PROVE  IndInv'
<1>0. t \in Thread /\ Home(t) \in End /\ t \in Senders(Home(t)) /\ TypeOK
  BY Homes DEF IndInv
<1>1. Moves(t, "idle")
  BY <1>0, GotoMoves DEF Finish, Place
<1>2. ok => sent[Home(t)] \in Frame
  BY <1>0 DEF IndInv, Control, Numbered, Active, TypeOK, Frame
<1>3. confirmed' \in [End -> SUBSET Frame]
  <2>1. CASE ok
    BY <1>0, <1>2, <2>1 DEF Finish, TypeOK
  <2>2. CASE ~ok
    BY <1>0, <2>2 DEF Finish, TypeOK
  <2> QED
    BY <2>1, <2>2
<1>4. TypeOK'
  BY <1>0, <1>1, <1>3 DEF TypeOK, Moves, Place, Finish, endVars
<1>5. \A e \in End : \A n \in confirmed'[e] :
         \/ n \in confirmed[e]
         \/ n = sent[e] /\ succeeded[e] /\ t \in Senders(e) /\ pc[t] \in {"test", "final"}
  <2>1. CASE ok
    BY <1>0, <2>1 DEF Finish, TypeOK
  <2>2. CASE ~ok
    BY <1>0, <2>2 DEF Finish, TypeOK
  <2> QED
    BY <2>1, <2>2
<1>6. serial' = serial \/ (serial = t /\ serial' = None)
  BY DEF Finish
<1> QED
  BY <1>0, <1>1, <1>4, <1>5, <1>6, QuietInv DEF endVars

-----------------------------------------------------------------------------
(* Send. *)

LEMMA BeginInv ==
  ASSUME IndInv, NEW t \in Sender, Begin(t)
  PROVE  IndInv'
<1>0. t \in Thread /\ TypeOK
  BY Homes DEF IndInv
<1>1. Moves(t, "check")
  BY <1>0, GotoMoves DEF Begin, Place
<1>2. TypeOK'
  BY <1>0, <1>1 DEF Begin, TypeOK, Moves, Place, endVars, histVars
<1> QED
  BY <1>0, <1>1, <1>2, QuietInv DEF Begin, endVars, histVars

LEMMA CheckDisconnectsInv ==
  ASSUME IndInv, NEW t \in Sender, CheckDisconnects(t)
  PROVE  IndInv'
<1>0. t \in Thread /\ TypeOK
  BY Homes DEF IndInv
<1>1. Moves(t, "stop")
  BY <1>0, GotoMoves DEF CheckDisconnects, Place
<1>2. TypeOK'
  BY <1>0, <1>1 DEF CheckDisconnects, TypeOK, Moves, Place, endVars, histVars
<1> QED
  BY <1>0, <1>1, <1>2, PlainInv DEF CheckDisconnects, endVars

LEMMA WaitTimeoutInv ==
  ASSUME IndInv, NEW t \in Sender, WaitTimeout(t)
  PROVE  IndInv'
<1>0. t \in Thread /\ TypeOK
  BY Homes DEF IndInv
<1>1. Moves(t, "final")
  BY <1>0, GotoMoves DEF WaitTimeout, Place
<1>2. TypeOK'
  BY <1>0, <1>1 DEF WaitTimeout, TypeOK, Moves, Place, endVars, histVars
<1> QED
  BY <1>0, <1>1, <1>2, PlainInv DEF WaitTimeout, endVars

(* The frame is the one in _last_sent_bytes from here on. *)
LEMMA ArmInv ==
  ASSUME IndInv, NEW t \in Sender, Arm(t)
  PROVE  IndInv'
<1>0. t \in Thread /\ Home(t) \in End /\ t \in Senders(Home(t)) /\ TypeOK
      /\ \A e \in End : t \in Senders(e) => e = Home(t)
  BY Homes DEF IndInv
<1>1. Moves(t, "disarm")
  BY <1>0, GotoMoves DEF Arm, Place
<1>2. TypeOK'
  BY <1>0, <1>1 DEF Arm, TypeOK, Moves, Place, endVars, histVars
<1>3. \A e \in End : \/ lastSent'[e] = sent[e]
                     \/ lastSent'[e] = lastSent[e] /\ (t \in Senders(e) => pc[t] # "arm")
  BY <1>0 DEF Arm, TypeOK
<1> QED
  BY <1>0, <1>1, <1>2, <1>3, QuietInv DEF Arm, histVars

LEMMA DisarmInv ==
  ASSUME IndInv, NEW t \in Sender, Disarm(t)
  PROVE  IndInv'
<1>0. t \in Thread /\ Home(t) \in End /\ TypeOK
  BY Homes DEF IndInv
<1>1. Moves(t, "push")
  BY <1>0, GotoMoves DEF Disarm, Place
<1>2. TypeOK'
  BY <1>0, <1>1 DEF Disarm, TypeOK, Moves, Place, endVars, histVars
<1>3. succeeded'[Home(t)] = FALSE /\ \A e \in End : succeeded'[e] => succeeded[e]
  BY <1>0 DEF Disarm, TypeOK
<1> QED
  BY <1>0, <1>1, <1>2, <1>3, QuietInv DEF Disarm, histVars

LEMMA SendGivesUpInv ==
  ASSUME IndInv, NEW t \in Sender,
         CheckRefuses(t) \/ PushFails(t) \/ ClockFails(t) \/ Refuse(t)
  PROVE  IndInv'
<1>0. t \in Thread /\ Home(t) \in End /\ TypeOK
  BY Homes DEF IndInv
<1>1. /\ Finish(t, FALSE) /\ UNCHANGED <<endVars, net, inHand, sent, damaged, accepted>>
      /\ pc[t] \notin {"arm", "disarm"}
  BY DEF CheckRefuses, PushFails, ClockFails, Refuse
<1>2. condLock' \in [End -> Sender \cup {None}]
  BY <1>0 DEF CheckRefuses, PushFails, ClockFails, Refuse, TypeOK
<1> QED
  BY <1>1, <1>2, FinishInv

LEMMA TestInv ==
  ASSUME IndInv, NEW t \in Sender, Test(t)
  PROVE  IndInv'
<1>0. t \in Thread /\ Home(t) \in End /\ TypeOK
  BY Homes DEF IndInv
<1>1. condLock' \in [End -> Sender \cup {None}]
  BY <1>0 DEF Test, TypeOK
<1>2. CASE IsSendSucceeded(Home(t))
  <2>1. Finish(t, TRUE) /\ succeeded[Home(t)]
    BY <1>2 DEF Test, IsSendSucceeded
  <2> QED
    BY <1>1, <2>1, FinishInv DEF Test
<1>3. CASE ~IsSendSucceeded(Home(t))
  <2>1. Goto(t, "waiting") /\ UNCHANGED <<serial, confirmed, endVars, net, inHand, sent, damaged, accepted>>
    BY <1>3 DEF Test
  <2>2. Moves(t, "waiting")
    BY <1>0, <2>1, GotoMoves DEF Place
  <2>3. TypeOK'
    BY <1>0, <1>1, <2>1, <2>2 DEF TypeOK, Moves, Place, endVars
  <2> QED
    BY <1>0, <2>1, <2>2, <2>3, PlainInv DEF Test, endVars, histVars
<1> QED
  BY <1>2, <1>3

LEMMA FinalInv ==
  ASSUME IndInv, NEW t \in Sender, Final(t)
  PROVE  IndInv'
<1>0. Home(t) \in End /\ TypeOK
  BY Homes DEF IndInv
<1>1. PICK ok \in BOOLEAN : ok = IsSendSucceeded(Home(t))
  BY <1>0 DEF IsSendSucceeded, TypeOK, Invalid
<1>2. Finish(t, ok) /\ condLock' \in [End -> Sender \cup {None}]
  BY <1>0, <1>1 DEF Final, TypeOK
<1>3. ok => succeeded[Home(t)]
  BY <1>1 DEF IsSendSucceeded
<1> QED
  BY <1>2, <1>3, FinishInv DEF Final

(* With _send_succeeded up nothing of end e is anywhere: the next frame can *)
(* be created.                                                              *)
LEMMA CheckPassesInv ==
  ASSUME IndInv, NEW t \in Sender, CheckPasses(t)
  PROVE  IndInv'
<1> DEFINE e == Home(t)
<1> DEFINE f == Peer(e)
<1>0. /\ t \in Thread /\ e \in End /\ f \in End /\ f # e /\ t \in Senders(e)
      /\ \A x \in End : t # Reader(x)
      /\ \A x \in End : Reader(x) \in Thread
      /\ \A x \in End : t \in Senders(x) => x = e
  BY Homes, PeerFacts
<1>1. /\ TypeOK /\ Control /\ Judged /\ \A x \in End : Direction(x)
      /\ AcceptedOnceInOrder /\ TrueMeansAccepted
  BY DEF IndInv
<1>2. /\ pc[t] = "check" /\ succeeded[e] /\ sent' = [sent EXCEPT ![e] = @ + 1]
      /\ sent[e] \in Nat
      /\ UNCHANGED <<serial, keep, lastSent, succeeded, net, inHand, accepted, confirmed>>
  BY <1>0, <1>1 DEF CheckPasses, IsSendSucceeded, endVars, TypeOK
<1>3. Moves(t, "arm") /\ pc'[t] = "arm" /\ \A u \in Thread \ {t} : pc'[u] = pc[u]
  BY <1>0, <1>1, GotoMoves DEF CheckPasses, Place, Moves
<1>4. TypeOK'
  <2>1. sent' \in [End -> Nat] /\ sent'[e] = sent[e] + 1 /\ \A x \in End \ {e} : sent'[x] = sent[x]
    BY <1>0, <1>1, <1>2 DEF TypeOK
  <2>2. sent[e] < MaxFrames(e) /\ MaxFrames(e) \in Nat
    BY <1>0, <1>1, <1>2, LinkAssumption DEF Control, Numbered, MaxFrames
  <2>3. \A x \in End : sent'[x] <= MaxFrames(x)
    BY <1>0, <1>1, <1>2, <2>1, <2>2 DEF TypeOK
  <2> QED
    BY <1>1, <1>3, <2>1, <2>3 DEF TypeOK, Moves, Place, CheckPasses, endVars
<1> HIDE DEF e, f
<1>5. sent'[e] = sent[e] + 1 /\ \A x \in End \ {e} : sent'[x] = sent[x]
  BY <1>0, <1>1, <1>2 DEF TypeOK
<1>6. Control'
  <2>1. \A x \in End : t = Reader(x) =>
            /\ "arm" \in {"judge", "reply", "resend"} => inHand'[x] \in DataMessage
            /\ "arm" = "deal" => inHand'[x] \in ReplyMessage
    OBVIOUS
  <2>2. \A x \in End : sent'[x] = sent[x] \/ (t \in Senders(x) /\ pc[t] # "idle" /\ sent'[x] # 0)
    BY <1>0, <1>2, <1>5
  <2>3. sent'[Home(t)] # 0
    BY <1>2, <1>5 DEF e
  <2>4. \A x \in End : \/ t \in Senders(x)
                       \/ lastSent'[x] = lastSent[x] /\ sent'[x] = sent[x]
    BY <1>0, <1>2, <1>5
  <2> QED
    BY <1>0, <1>1, <1>2, <1>3, <2>1, <2>2, <2>3, <2>4, ControlStays
<1>7. Judged'
  BY <1>0, <1>1, <1>2, <1>3 DEF Judged
<1>8. Direction(e)'
  <2> SUFFICES ASSUME keep'[f] PROVE Direction(e)'
    BY DEF Direction, f
  <2>1. /\ OneToken(e) /\ Below(accepted[f], sent[e] + 1)
    BY <1>0, <1>1, <1>2 DEF Direction, f
  <2>2. ~DataIn(e) /\ ~Judging(e) /\ ~ReplyIn(e) /\ ~Dealing(e)
    BY <1>2, <2>1 DEF OneToken
  <2>3. ~DataIn(e)' /\ ~Judging(e)' /\ ~ReplyIn(e)' /\ ~Dealing(e)'
    BY <1>0, <1>2, <1>3, <2>2 DEF DataIn, Judging, ReplyIn, Dealing, f
  <2>4. \A u \in Senders(e) : u # t => pc'[u] = "idle"
    BY <1>0, <1>1, <1>2, <1>3, Solo, Homes DEF Control
  <2>5. OneToken(e)'
    BY <1>2, <1>3, <2>1, <2>3, <2>4 DEF OneToken
  <2>6. Names(e)'
    <3>1. \A i \in 1..Len(net'[f]) : net'[f][i].kind # "data"
      BY <2>3 DEF DataIn, Has, f
    <3> QED
      BY <2>3, <3>1 DEF Names, All, Dealing, f
  <2>7. Below(accepted'[f], sent'[e])
    BY <1>2, <1>5, <2>1
  <2>8. Below(accepted'[f], sent'[e] + 1)
    <3>1. accepted'[f] \in Seq(Frame) /\ sent'[e] \in Nat
      BY <1>0, <1>4 DEF TypeOK
    <3> QED
      BY <2>7, <3>1 DEF Below, Frame
  <2>9. ~Settled(e)'
    <3>1. \A i \in 1..Len(net'[e]) : net'[e][i].kind # "correct"
      BY <2>3 DEF ReplyIn, Has, Reply
    <3> QED
      BY <1>3, <2>3, <2>4, <3>1 DEF Settled, Has, Judging, Dealing
  <2>10. Counted(e)'
    <3>1. ~Sending(e)
      BY <1>0, <1>1, <1>2, Solo DEF Control, Sending
    <3>2. Len(accepted[f]) = sent[e] /\ Sending(e)'
      BY <1>0, <1>1, <1>2, <1>3, <3>1 DEF Direction, Counted, Sending, f
    <3> QED
      BY <1>2, <1>5, <2>9, <3>2 DEF Counted, f
  <2> QED
    BY <2>5, <2>6, <2>7, <2>8, <2>9, <2>10 DEF Direction, f
<1>9. Direction(f)'
  <2>0. Peer(f) = e /\ t \notin Senders(f) /\ \A u \in Senders(f) : u \in Thread /\ u # t
    BY <1>0, PeerFacts, Homes DEF f
  <2>1. FewerData(net'[e], net[e]) /\ FewerReplies(net'[f], net[f])
    BY <1>2, FewerIfSame
  <2>2. Sending(f)' => Sending(f)
    BY <1>3, <2>0 DEF Sending
  <2> QED
    BY <1>0, <1>1, <1>2, <1>3, <1>5, <2>0, <2>1, <2>2, DirectionStays
<1>10. \A x \in End : x = e \/ x = f
  BY <1>0, PeerFacts DEF f
<1> QED
  BY <1>1, <1>2, <1>4, <1>6, <1>7, <1>8, <1>9, <1>10 DEF IndInv, AcceptedOnceInOrder, TrueMeansAccepted

-----------------------------------------------------------------------------
(* What is sent arrives behind the rest, or not at all.                     *)

LEMMA NetGrows ==
  ASSUME TypeOK, NEW f \in End, NEW m \in Message,
         net' = net \/ net' = [net EXCEPT ![f] = Append(@, m)]
  PROVE  /\ net' \in [End -> Seq(Message)]
         /\ \A x \in End \ {f} : net'[x] = net[x]
         /\ net'[f] = net[f] \/ net'[f] = Append(net[f], m)
         /\ net[f] \in Seq(Message)
<1>1. net \in [End -> Seq(Message)]
  BY DEF TypeOK, Message
<1>2. net[f] \in Seq(Message) /\ Append(net[f], m) \in Seq(Message)
  BY <1>1, Grows
<1> QED
  BY <1>1, <1>2

LEMMA FrameGoes ==
  ASSUME TypeOK, NEW e \in End, NEW n \in Frame, DeliverFrame(e, n)
  PROVE  /\ \E m \in DataMessage :
               m.of = n /\ (net' = net \/ net' = [net EXCEPT ![Peer(e)] = Append(@, m)])
         /\ damaged' \in Seq(End \X Damage) /\ Len(damaged') <= MaxDamage
<1>1. \A d \in {"good", "body", "digest"} : Data(n, d) \in DataMessage /\ Data(n, d).of = n
  BY DEF Data, DataMessage
<1>2. \A d \in Damage : d \in {"good", "body", "digest"}
  BY LinkAssumption
<1>3. damaged' \in Seq(End \X Damage) /\ Len(damaged') <= MaxDamage
  <2>0. damaged \in Seq(End \X Damage) /\ Len(damaged) <= MaxDamage
    BY DEF TypeOK
  <2>1. CASE UNCHANGED damaged
    BY <2>0, <2>1
  <2>2. ASSUME Len(damaged) < MaxDamage, NEW d \in Damage, damaged' = Append(damaged, <<e, d>>)
        PROVE  damaged' \in Seq(End \X Damage) /\ Len(damaged') <= MaxDamage
    BY <2>0, <2>2, Grows, LinkAssumption
  <2> QED
    BY <2>1, <2>2 DEF DeliverFrame
<1>4. PICK d \in {"good", "body", "digest"} : Deliver(e, Data(n, d))
  BY <1>2 DEF DeliverFrame
<1> QED
  BY <1>1, <1>3, <1>4 DEF Deliver

(* The frame of end e is on its way to f or lost, and nowhere else. *)
LEMMA OnItsWay ==
  ASSUME TypeOK, TypeOK', NEW e \in End, NEW f \in End, f = Peer(e),
         keep[f], Direction(e), Pending(e), ~DataIn(e),
         NEW m \in DataMessage, m.of = sent[e],
         net'[f] = net[f] \/ net'[f] = Append(net[f], m), net'[e] = net[e],
         sent'[e] = sent[e], accepted'[f] = accepted[f], ~succeeded'[e],
         ~Sending(e)', ~Judging(e)', ~ReplyIn(e)', ~Dealing(e)'
  PROVE  Direction(e)'
<1>1. /\ OneToken(e) /\ Names(e) /\ Below(accepted[f], sent[e] + 1) /\ Below(accepted[f], sent[e])
      /\ Len(accepted[f]) + 1 = sent[e]
  BY DEF Direction, Counted
<1>2. net[f] \in Seq(Message) /\ m \in Message /\ sent[e] \in Nat
  BY DEF TypeOK, Message
<1>3. Few(net'[f], {"data"})
  <2>1. Few(net[f], {"data"}) /\ ~Has(net[f], {"data"})
    BY <1>1 DEF OneToken, DataIn
  <2>2. Few(Append(net[f], m), {"data"})
    BY <1>2, <2>1, GrowsByKind
  <2> QED
    BY <2>1, <2>2
<1>4. All(net'[f], sent'[e])
  BY <1>1, <1>2, GrowsByKind DEF Names
<1>5. OneToken(e)'
  BY <1>1, <1>3 DEF OneToken
<1>6. Names(e)'
  BY <1>4 DEF Names, Judging, Dealing
<1>7. ~Settled(e)'
  BY DEF Settled, Judging, Dealing, ReplyIn, Has, Reply
<1>8. Counted(e)'
  BY <1>1, <1>7 DEF Counted
<1> QED
  BY <1>1, <1>5, <1>6, <1>7, <1>8 DEF Direction

LEMMA PushInv ==
  ASSUME IndInv, NEW t \in Sender, Push(t)
  PROVE  IndInv'
<1> DEFINE e == Home(t)
<1> DEFINE f == Peer(e)
<1>0. /\ t \in Thread /\ e \in End /\ f \in End /\ f # e /\ t \in Senders(e)
      /\ \A x \in End : t # Reader(x) /\ Reader(x) \in Thread
      /\ \A x \in End : t \in Senders(x) => x = e
  BY Homes, PeerFacts
<1>1. /\ TypeOK /\ Control /\ Judged /\ \A x \in End : Direction(x)
      /\ AcceptedOnceInOrder /\ TrueMeansAccepted
  BY DEF IndInv
<1>2. /\ pc[t] = "push" /\ DeliverFrame(e, sent[e]) /\ sent[e] \in Frame
      /\ condLock' = [condLock EXCEPT ![e] = t]
      /\ UNCHANGED <<serial, socket, keep, lastSent, succeeded, replyHash, inHand, sent, accepted, confirmed>>
  BY <1>0, <1>1 DEF Push, endVars, TypeOK, Control, Numbered, Active, Frame
<1>3. Moves(t, "test") /\ pc'[t] = "test" /\ \A u \in Thread \ {t} : pc'[u] = pc[u]
  BY <1>0, <1>1, GotoMoves DEF Push, Place, Moves
<1>4. PICK m \in DataMessage : m.of = sent[e] /\ (net' = net \/ net' = [net EXCEPT ![f] = Append(@, m)])
  BY <1>0, <1>1, <1>2, FrameGoes
<1>5. /\ net' \in [End -> Seq(Message)] /\ net'[e] = net[e]
      /\ damaged' \in Seq(End \X Damage) /\ Len(damaged') <= MaxDamage
      /\ net'[f] = net[f] \/ net'[f] = Append(net[f], m)
      /\ net[f] \in Seq(Message)
  BY <1>0, <1>1, <1>2, <1>4, NetGrows, FrameGoes DEF Message
<1> HIDE DEF e, f
<1>6. TypeOK'
  BY <1>0, <1>1, <1>2, <1>3, <1>5 DEF TypeOK, Moves, Place, Message
<1>7. Control'
  <2>1. sent'[Home(t)] # 0
    BY <1>2 DEF e, Frame
  <2>2. \A x \in End : lastSent'[x] = lastSent[x] /\ sent'[x] = sent[x] /\ inHand'[x] = inHand[x]
    BY <1>2
  <2> QED
    BY <1>0, <1>1, <1>2, <1>3, <2>1, <2>2, ControlStays
<1>8. Judged'
  BY <1>0, <1>1, <1>2, <1>3 DEF Judged
<1>9. Direction(e)'
  <2> SUFFICES ASSUME keep'[f] PROVE Direction(e)'
    BY DEF Direction, f
  <2>1. OneToken(e) /\ keep[f]
    BY <1>0, <1>1, <1>2 DEF Direction, f
  <2>2. Sending(e) /\ Pending(e)
    BY <1>0, <1>2 DEF Sending, Pending
  <2>3. ~DataIn(e) /\ ~Judging(e) /\ ~ReplyIn(e) /\ ~Dealing(e) /\ ~succeeded[e]
    BY <1>0, <1>2, <2>1, <2>2 DEF OneToken
  <2>4. ~Judging(e)' /\ ~ReplyIn(e)' /\ ~Dealing(e)'
    BY <1>0, <1>3, <1>5, <2>3 DEF Judging, ReplyIn, Dealing, f
  <2>5. ~Sending(e)'
    BY <1>0, <1>1, <1>2, <1>3, Solo, Homes DEF Control, Sending
  <2> QED
    BY <1>0, <1>1, <1>2, <1>4, <1>5, <1>6, <2>1, <2>2, <2>3, <2>4, <2>5, OnItsWay DEF f
<1>10. Direction(f)'
  <2>0. Peer(f) = e /\ t \notin Senders(f) /\ \A u \in Senders(f) : u \in Thread /\ u # t
    BY <1>0, PeerFacts, Homes DEF f
  <2>1. FewerData(net'[e], net[e]) /\ FewerReplies(net'[f], net[f])
    BY <1>5, FewerIfSame, FewerIfOther DEF Message
  <2>2. Sending(f)' => Sending(f)
    BY <1>3, <2>0 DEF Sending
  <2> QED
    BY <1>0, <1>1, <1>2, <1>3, <2>0, <2>1, <2>2, DirectionStays
<1>11. \A x \in End : x = e \/ x = f
  BY <1>0, PeerFacts DEF f
<1> QED
  BY <1>1, <1>2, <1>6, <1>7, <1>8, <1>9, <1>10, <1>11 DEF IndInv, AcceptedOnceInOrder, TrueMeansAccepted

-----------------------------------------------------------------------------
(* The steps of receiving threads, owners and closing threads that move no  *)
(* frame.                                                                   *)

LEMMA OnlyMovesInv ==
  ASSUME IndInv, NEW t \in Thread, NEW place, Moves(t, place),
         UNCHANGED <<serial, condLock, endVars, net, inHand, histVars>>,
         pc[t] \notin {"idle", "arm", "disarm"},
         place \in {"leave", "ended", "stop", "drop", "head", "done", "joinbegin", "refuse"}
  PROVE  IndInv'
<1>1. TypeOK'
  BY DEF IndInv, TypeOK, Moves, Place, endVars, histVars
<1> QED
  BY <1>1, PlainInv DEF endVars

LEMMA OnlyGotoInv ==
  ASSUME IndInv, NEW t \in Thread, NEW place, Goto(t, place),
         UNCHANGED <<serial, condLock, endVars, net, inHand, histVars>>,
         pc[t] \notin {"idle", "arm", "disarm"},
         place \in {"leave", "stop", "drop", "head", "done", "refuse"}
  PROVE  IndInv'
<1>1. place \in Place /\ TypeOK
  BY DEF Place, IndInv
<1> QED
  BY <1>1, GotoMoves, OnlyMovesInv

LEMMA ReceiverMovesInv ==
  ASSUME IndInv, NEW r \in Recv,
         StopReceiving(r) \/ ConnectionEnds(r) \/ Wake(r) \/ Leave(r)
  PROVE  IndInv'
<1>0. r \in Thread /\ r[2] \in End /\ TypeOK /\ "head" \in Place
  BY Homes DEF IndInv, Place
<1>1. CASE StopReceiving(r) \/ ConnectionEnds(r)
  BY <1>0, <1>1, OnlyGotoInv DEF StopReceiving, ConnectionEnds
<1>2. CASE Wake(r)
  BY <1>0, <1>2, WakeMoves, OnlyMovesInv DEF Wake
<1>3. CASE Leave(r)
  BY <1>0, <1>3, LeaveMoves, OnlyMovesInv DEF Leave
<1> QED
  BY <1>1, <1>2, <1>3

LEMMA OwnerMovesInv ==
  ASSUME IndInv, NEW o \in Owner,
         DisconnectBegin(o) \/ DisconnectNothing(o) \/ DisconnectClockFails(o) \/ DisconnectTimeout(o)
  PROVE  IndInv'
<1>0. o \in Thread /\ o[2] \in End /\ TypeOK /\ "joinbegin" \in Place
  BY Homes DEF IndInv, Place
<1>1. CASE DisconnectNothing(o) \/ DisconnectClockFails(o) \/ DisconnectTimeout(o)
  BY <1>0, <1>1, OnlyGotoInv DEF DisconnectNothing, DisconnectClockFails, DisconnectTimeout
<1>2. CASE DisconnectBegin(o)
  BY <1>0, <1>2, WakeMoves, OnlyMovesInv DEF DisconnectBegin
<1> QED
  BY <1>1, <1>2

(* A wait that wakes by itself finds _keep_running_thread lowered already. *)
LEMMA DisconnectStrayInv ==
  ASSUME IndInv, NEW o \in Owner, DisconnectStray(o)
  PROVE  IndInv'
<1>0. o \in Thread /\ Home(o) \in End /\ TypeOK /\ "ackout" \in Place
  BY Homes DEF IndInv, Place
<1>1. /\ pc[o] = "joining" /\ Goto(o, "ackout")
      /\ UNCHANGED <<serial, condLock, endVars, net, inHand, histVars>>
  BY DEF DisconnectStray
<1>2. Moves(o, "ackout")
  BY <1>0, <1>1, GotoMoves
<1>3. TypeOK'
  BY <1>0, <1>1, <1>2 DEF TypeOK, Moves, Place, endVars, histVars
<1>4. ~keep[Home(o)] /\ keep' = keep
  BY <1>0, <1>1 DEF IndInv, Control, Closing, endVars
<1> QED
  BY <1>0, <1>1, <1>2, <1>3, <1>4, PlainInv DEF endVars

LEMMA ForceBeginsInv ==
  ASSUME IndInv, NEW t \in Thread, ForceNothing(t) \/ ForceWake(t)
  PROVE  IndInv'
<1>0. Home(t) \in End /\ TypeOK /\ "drop" \in Place
  BY Homes DEF IndInv, Place
<1>1. CASE ForceNothing(t)
  BY <1>0, <1>1, OnlyGotoInv DEF ForceNothing, Return
<1>2. CASE ForceWake(t)
  BY <1>0, <1>2, WakeMoves, OnlyMovesInv DEF ForceWake
<1> QED
  BY <1>1, <1>2

(* Every closing thread lowers _keep_running_thread before it replies. *)
LEMMA StopKeepingInv ==
  ASSUME IndInv, NEW t \in Thread, NEW place \in {"joining", "ackout"}, Goto(t, place),
         keep' = [keep EXCEPT ![Home(t)] = FALSE], pc[t] \notin {"idle", "arm", "disarm"},
         UNCHANGED <<serial, condLock, socket, lastSent, succeeded, replyHash, net, inHand, histVars>>
  PROVE  IndInv'
<1>0. Home(t) \in End /\ TypeOK /\ place \in Place
  BY Homes DEF IndInv, Place
<1>1. Moves(t, place)
  BY <1>0, GotoMoves
<1>2. TypeOK'
  BY <1>0, <1>1 DEF TypeOK, Moves, Place, histVars
<1>3. ~keep'[Home(t)] /\ \A e \in End : keep'[e] => keep[e]
  BY <1>0 DEF TypeOK
<1> QED
  BY <1>1, <1>2, <1>3, PlainInv

LEMMA DropInv ==
  ASSUME IndInv
  PROVE  /\ \A o \in Owner : DisconnectWait(o) => IndInv'
         /\ \A t \in Thread : ForceDrop(t) => IndInv'
<1>1. ASSUME NEW o \in Owner, DisconnectWait(o) PROVE IndInv'
  <2>1. o \in Thread /\ Home(o) = o[2]
    BY Homes
  <2> QED
    BY <1>1, <2>1, StopKeepingInv DEF DisconnectWait
<1>2. ASSUME NEW t \in Thread, ForceDrop(t) PROVE IndInv'
  BY <1>2, StopKeepingInv DEF ForceDrop
<1> QED
  BY <1>1, <1>2

(* What Reply leaves behind, and the end of DisconnectForcibly. *)
LEMMA TidyInv ==
  ASSUME IndInv, NEW t \in Thread,
         (t \in Recv /\ ReplyDone(t)) \/ CloseReplyDone(t) \/ Close(t) \/ Forget(t)
  PROVE  IndInv'
<1>0. Home(t) \in End /\ TypeOK /\ (t \in Recv => Home(t) = t[2])
  BY Homes DEF IndInv
<1>1. PICK place \in {"head", "shut", "void", "refuse", "leave", "done"} : Goto(t, place)
  BY DEF ReplyDone, CloseReplyDone, ClearReply, Close, Forget, Return
<1>2. Moves(t, place)
  BY <1>0, <1>1, GotoMoves DEF Place
<1>3. /\ UNCHANGED <<serial, condLock, keep, lastSent, succeeded, net, inHand, histVars>>
      /\ pc[t] \notin {"idle", "arm", "disarm"}
  BY DEF ReplyDone, CloseReplyDone, ClearReply, Close, Forget
<1>4. socket' \in [End -> {"open", "closed", "invalid"}]
  BY <1>0 DEF ReplyDone, CloseReplyDone, ClearReply, Close, Forget, TypeOK
<1>5. replyHash' \in [End -> DataMessage \cup {Nothing}]
  BY <1>0 DEF ReplyDone, CloseReplyDone, ClearReply, Close, Forget, TypeOK
<1>6. TypeOK'
  BY <1>0, <1>2, <1>3, <1>4, <1>5 DEF TypeOK, Moves, Place, histVars
<1> QED
  BY <1>1, <1>2, <1>3, <1>6, PlainInv

-----------------------------------------------------------------------------
(* The receiving thread of end e, with the peer f. *)

LEMMA ReaderMoves ==
  ASSUME TypeOK, NEW e \in End, NEW f, f = Peer(e), NEW place \in Place, Goto(Reader(e), place)
  PROVE  /\ f \in End /\ f # e /\ Peer(f) = e /\ \A x \in End : x = e \/ x = f
         /\ Moves(Reader(e), place) /\ pc'[Reader(e)] = place /\ pc'[Reader(f)] = pc[Reader(f)]
         /\ \A x \in End : \A u \in Senders(x) : pc'[u] = pc[u]
         /\ \A x \in End : Sending(x)' <=> Sending(x)
<1>1. /\ f \in End /\ f # e /\ Peer(f) = e /\ \A x \in End : x = e \/ x = f
  BY PeerFacts
<1>2. Moves(Reader(e), place) /\ \A u \in Thread \ {Reader(e)} : pc'[u] = pc[u]
  BY GotoMoves, Homes
<1>3. Reader(f) # Reader(e) /\ Reader(f) \in Thread
  BY <1>1, Homes
<1>4. \A x \in End : \A u \in Senders(x) : pc'[u] = pc[u]
  BY <1>2, Homes
<1>5. \A x \in End : Sending(x)' <=> Sending(x)
  BY <1>4 DEF Sending
<1> QED
  BY <1>1, <1>2, <1>3, <1>4, <1>5 DEF Moves

LEMMA ReaderControl ==
  ASSUME TypeOK, Control, NEW e \in End, NEW place \in Place, Goto(Reader(e), place),
         UNCHANGED <<serial, keep, lastSent, sent>>,
         \A x \in End \ {e} : inHand'[x] = inHand[x],
         pc[Reader(e)] # "idle",
         place \in {"judge", "reply", "resend"} => inHand'[e] \in DataMessage,
         place = "deal" => inHand'[e] \in ReplyMessage,
         place \notin {"joining", "ackout", "ackclear"}
  PROVE  Control'
<1> DEFINE r == Reader(e)
<1>1. /\ r \in Thread /\ r \notin Sender /\ \A x \in End : (r = Reader(x) => x = e) /\ r \notin Senders(x)
  BY Homes
<1>2. Moves(r, place)
  BY <1>1, GotoMoves
<1> HIDE DEF r
<1>3. /\ \A x \in End : r # Reader(x) => inHand'[x] = inHand[x]
      /\ \A x \in End : r = Reader(x) =>
            /\ place \in {"judge", "reply", "resend"} => inHand'[x] \in DataMessage
            /\ place = "deal" => inHand'[x] \in ReplyMessage
  BY <1>1 DEF r
<1>4. pc[r] # "idle"
  BY DEF r
<1> QED
  BY <1>1, <1>2, <1>3, <1>4, ControlStays

LEMMA ReceiveReplyInv ==
  ASSUME IndInv, NEW e \in End, ReceiveReply(Reader(e))
  PROVE  IndInv'
<1> DEFINE f == Peer(e)
<1>1. /\ TypeOK /\ Control /\ Judged /\ \A x \in End : Direction(x)
      /\ AcceptedOnceInOrder /\ TrueMeansAccepted
  BY DEF IndInv
<1>2. /\ net[e] # <<>> /\ Head(net[e]).kind # "data" /\ pc[Reader(e)] = "head"
      /\ inHand' = [inHand EXCEPT ![e] = Head(net[e])]
      /\ net' = [net EXCEPT ![e] = Tail(@)]
      /\ Goto(Reader(e), "deal")
      /\ UNCHANGED <<serial, condLock, endVars, histVars>>
  BY Homes DEF ReceiveReply, Readable
<1>3. /\ f \in End /\ f # e /\ Peer(f) = e /\ \A x \in End : x = e \/ x = f
      /\ Moves(Reader(e), "deal") /\ pc'[Reader(e)] = "deal" /\ pc'[Reader(f)] = pc[Reader(f)]
      /\ \A x \in End : \A u \in Senders(x) : pc'[u] = pc[u]
      /\ \A x \in End : Sending(x)' <=> Sending(x)
  BY <1>1, <1>2, ReaderMoves DEF Place
<1> HIDE DEF f
<1>4. /\ net \in [End -> Seq(Message)] /\ net[e] \in Seq(Message)
      /\ Head(net[e]) \in ReplyMessage /\ Tail(net[e]) \in Seq(Message)
  <2>1. net \in [End -> Seq(Message)] /\ net[e] \in Seq(Message)
    BY <1>1 DEF TypeOK, Message
  <2>2. Head(net[e]) \in Message /\ Tail(net[e]) \in Seq(Message)
    BY <1>2, <2>1, Shrinks
  <2> QED
    BY <1>2, <2>1, <2>2 DEF Message, DataMessage
<1>5. /\ net' \in [End -> Seq(Message)] /\ net'[e] = Tail(net[e]) /\ net'[f] = net[f]
      /\ inHand'[e] = Head(net[e]) /\ inHand'[f] = inHand[f]
  BY <1>1, <1>2, <1>3, <1>4 DEF TypeOK
<1>6. TypeOK'
  <2>1. inHand' \in [End -> DataMessage \cup ReplyMessage \cup {Nothing}]
    BY <1>1, <1>2, <1>4 DEF TypeOK
  <2> QED
    BY <1>1, <1>2, <1>3, <1>5, <2>1 DEF TypeOK, Moves, Place, endVars, histVars, Message
<1>7. Control'
  BY <1>1, <1>2, <1>3, <1>4, <1>5, ReaderControl DEF endVars, histVars, Place
<1>8. Judged'
  BY <1>1, <1>2, <1>3, <1>5 DEF Judged, histVars
<1>9. Direction(e)'
  <2> SUFFICES ASSUME keep'[f] PROVE Direction(e)'
    BY DEF Direction, f
  <2>1. /\ keep[f] /\ OneToken(e) /\ Names(e) /\ Counted(e) /\ Below(accepted[f], sent[e] + 1)
        /\ Pending(e) => Below(accepted[f], sent[e])
        /\ Settled(e) => Within(accepted[f], sent[e])
    BY <1>1, <1>2, <1>3 DEF Direction, f, endVars
  <2>2. /\ ReplyIn(e) /\ ~Has(net'[e], Reply)
        /\ Head(net[e]).kind = "correct" => Has(net[e], {"correct"})
        /\ Head(net[e]).kind = "error" => Has(net[e], {"error"})
        /\ Head(net[e]).kind \in Reply
    <3>1. Head(net[e]).kind \in Reply
      BY <1>4 DEF ReplyMessage, Reply
    <3> QED
      BY <1>2, <1>4, <1>5, <2>1, <3>1, ShrinksByKind DEF ReplyIn, OneToken
  <2>3. ~Sending(e) /\ ~DataIn(e) /\ ~Judging(e) /\ ~Dealing(e) /\ ~succeeded[e]
    BY <2>1, <2>2 DEF OneToken
  <2>4. ~Sending(e)' /\ ~DataIn(e)' /\ ~Judging(e)' /\ ~ReplyIn(e)' /\ ~succeeded'[e]
    BY <1>2, <1>3, <1>5, <2>2, <2>3 DEF DataIn, Judging, ReplyIn, f, endVars
  <2>5. Few(net'[f], {"data"}) /\ Few(net'[e], Reply) /\ All(net'[f], sent'[e])
    BY <1>2, <1>5, <2>1, <2>2 DEF OneToken, Names, Has, Few, f, histVars
  <2>6. OneToken(e)'
    BY <2>4, <2>5, <1>3 DEF OneToken, f
  <2>7. Names(e)'
    BY <1>3, <2>4, <2>5 DEF Names, f
  <2>8. Pending(e)' => Pending(e)
    BY <1>3, <1>5, <2>2, <2>4 DEF Pending, Judging, ReplyIn, Has, Reply, f
  <2>9. Settled(e)' => Settled(e)
    BY <1>3, <1>5, <2>2, <2>4 DEF Settled, Judging, ReplyIn, Has, Reply, f
  <2>10. Counted(e)'
    BY <1>2, <2>1, <2>4, <2>8, <2>9 DEF Counted, f, histVars
  <2> QED
    BY <1>2, <2>1, <2>6, <2>7, <2>8, <2>9, <2>10 DEF Direction, f, histVars
<1>10. Direction(f)'
  <2>1. FewerData(net'[e], net[e]) /\ FewerReplies(net'[f], net[f])
    BY <1>2, <1>4, <1>5, FewerIfTail, FewerIfSame
  <2> QED
    BY <1>1, <1>2, <1>3, <1>5, <2>1, DirectionStays DEF endVars, histVars
<1> QED
  BY <1>1, <1>2, <1>3, <1>6, <1>7, <1>8, <1>9, <1>10
  DEF IndInv, AcceptedOnceInOrder, TrueMeansAccepted, endVars, histVars

LEMMA ReceiveDataInv ==
  ASSUME IndInv, NEW e \in End, ReceiveData(Reader(e))
  PROVE  IndInv'
<1> DEFINE f == Peer(e)
<1>1. /\ TypeOK /\ Control /\ Judged /\ \A x \in End : Direction(x)
      /\ AcceptedOnceInOrder /\ TrueMeansAccepted
  BY DEF IndInv
<1>2. /\ net[e] # <<>> /\ Head(net[e]).kind = "data" /\ pc[Reader(e)] = "head" /\ keep[e]
      /\ inHand' = [inHand EXCEPT ![e] = Head(net[e])]
      /\ replyHash' = [replyHash EXCEPT ![e] = Head(net[e])]
      /\ net' = [net EXCEPT ![e] = Tail(@)]
      /\ Goto(Reader(e), "judge")
      /\ UNCHANGED <<serial, condLock, socket, keep, lastSent, succeeded, histVars>>
  BY Homes DEF ReceiveData, Readable, KeepReceiving
<1>3. /\ f \in End /\ f # e /\ Peer(f) = e /\ \A x \in End : x = e \/ x = f
      /\ Moves(Reader(e), "judge") /\ pc'[Reader(e)] = "judge" /\ pc'[Reader(f)] = pc[Reader(f)]
      /\ \A x \in End : \A u \in Senders(x) : pc'[u] = pc[u]
      /\ \A x \in End : Sending(x)' <=> Sending(x)
  BY <1>1, <1>2, ReaderMoves DEF Place
<1> HIDE DEF f
<1>4. /\ net \in [End -> Seq(Message)] /\ net[e] \in Seq(Message)
      /\ Head(net[e]) \in DataMessage /\ Tail(net[e]) \in Seq(Message)
  <2>1. net \in [End -> Seq(Message)] /\ net[e] \in Seq(Message)
    BY <1>1 DEF TypeOK, Message
  <2>2. Head(net[e]) \in Message /\ Tail(net[e]) \in Seq(Message)
    BY <1>2, <2>1, Shrinks
  <2> QED
    BY <1>2, <2>1, <2>2 DEF Message, ReplyMessage
<1>5. /\ net' \in [End -> Seq(Message)] /\ net'[e] = Tail(net[e]) /\ net'[f] = net[f]
      /\ inHand'[e] = Head(net[e]) /\ inHand'[f] = inHand[f]
  BY <1>1, <1>2, <1>3, <1>4 DEF TypeOK
<1>6. TypeOK'
  <2>1. inHand' \in [End -> DataMessage \cup ReplyMessage \cup {Nothing}]
    BY <1>1, <1>2, <1>4 DEF TypeOK
  <2>2. replyHash' \in [End -> DataMessage \cup {Nothing}]
    BY <1>1, <1>2, <1>4 DEF TypeOK
  <2> QED
    BY <1>1, <1>2, <1>3, <1>5, <2>1, <2>2 DEF TypeOK, Moves, Place, histVars, Message
<1>7. Control'
  BY <1>1, <1>2, <1>3, <1>4, <1>5, ReaderControl DEF histVars, Place
<1>8. /\ OneToken(f) /\ Names(f) /\ Counted(f) /\ Below(accepted[e], sent[f] + 1)
      /\ Pending(f) => Below(accepted[e], sent[f])
      /\ sent[f] \in Nat
  BY <1>1, <1>2, <1>3 DEF Direction, TypeOK
<1>9. /\ DataIn(f) /\ ~Has(net'[e], {"data"}) /\ inHand'[e].of = sent[f]
      /\ Few(net'[e], {"data"}) /\ All(net'[e], sent[f])
  <2>1. /\ DataIn(f) /\ ~Has(net'[e], {"data"}) /\ inHand'[e].of = sent[f]
        /\ All(net'[e], sent[f])
    BY <1>2, <1>3, <1>4, <1>5, <1>8, ShrinksByKind DEF DataIn, OneToken, Names
  <2> QED
    BY <2>1 DEF Has, Few
<1>10. Below(accepted[e], sent[f])
  BY <1>8, <1>9 DEF Pending
<1>11. Judged'
  <2> SUFFICES ASSUME NEW x \in End, pc'[Reader(x)] = "judge" PROVE Below(accepted'[x], inHand'[x].of)
    BY DEF Judged
  <2>1. CASE x = e
    BY <1>2, <1>9, <1>10, <2>1 DEF histVars
  <2>2. CASE x = f
    BY <1>1, <1>2, <1>3, <1>5, <2>2 DEF Judged, histVars
  <2> QED
    BY <1>3, <2>1, <2>2
<1>12. Direction(f)'
  <2>1. ~Sending(f) /\ ~Judging(f) /\ ~ReplyIn(f) /\ ~Dealing(f) /\ ~succeeded[f]
    BY <1>8, <1>9 DEF OneToken
  <2>2. ~Sending(f)' /\ ~DataIn(f)' /\ ~ReplyIn(f)' /\ ~Dealing(f)' /\ ~succeeded'[f]
    BY <1>2, <1>3, <1>5, <1>9, <2>1 DEF DataIn, ReplyIn, Dealing
  <2>3. OneToken(f)'
    BY <1>2, <1>3, <1>5, <1>8, <1>9, <2>2 DEF OneToken
  <2>4. Names(f)'
    BY <1>2, <1>3, <1>9, <2>2 DEF Names, Dealing, histVars
  <2>5. ~Settled(f)'
    BY <1>3, <2>2 DEF Settled, ReplyIn, Has, Reply, Dealing
  <2>6. Pending(f)
    BY <1>9 DEF Pending
  <2>7. Counted(f)'
    BY <1>2, <1>3, <1>8, <2>2, <2>5, <2>6 DEF Counted, histVars
  <2> QED
    BY <1>2, <1>3, <1>8, <1>10, <2>3, <2>4, <2>5, <2>7 DEF Direction, histVars
<1>13. Direction(e)'
  <2>1. FewerData(net'[f], net[f]) /\ FewerReplies(net'[e], net[e])
    BY <1>2, <1>4, <1>5, FewerIfTail, FewerIfSame
  <2> QED
    BY <1>1, <1>2, <1>3, <1>5, <2>1, DirectionStays DEF histVars, f
<1> QED
  BY <1>1, <1>2, <1>3, <1>6, <1>7, <1>11, <1>12, <1>13
  DEF IndInv, AcceptedOnceInOrder, TrueMeansAccepted, histVars

(* A frame in judgement is the peer's last and comes after all that were    *)
(* accepted.                                                                *)
LEMMA JudgeInv ==
  ASSUME IndInv, NEW e \in End, Judge(Reader(e))
  PROVE  IndInv'
<1> DEFINE f == Peer(e)
<1> DEFINE n == inHand[e].of
<1>1. /\ TypeOK /\ Control /\ Judged /\ \A x \in End : Direction(x)
      /\ AcceptedOnceInOrder /\ TrueMeansAccepted
  BY DEF IndInv
<1>2. /\ pc[Reader(e)] = "judge" /\ Goto(Reader(e), "reply")
      /\ accepted' = IF inHand[e].state = "good"
                     THEN [accepted EXCEPT ![e] = Append(@, n)] ELSE accepted
      /\ UNCHANGED <<serial, condLock, endVars, net, inHand, sent, damaged, confirmed>>
  BY Homes DEF Judge
<1>3. /\ f \in End /\ f # e /\ Peer(f) = e /\ \A x \in End : x = e \/ x = f
      /\ Moves(Reader(e), "reply") /\ pc'[Reader(e)] = "reply" /\ pc'[Reader(f)] = pc[Reader(f)]
      /\ \A x \in End : \A u \in Senders(x) : pc'[u] = pc[u]
      /\ \A x \in End : Sending(x)' <=> Sending(x)
  BY <1>1, <1>2, ReaderMoves DEF Place
<1>4. /\ inHand[e] \in DataMessage /\ n \in Nat \ {0}
      /\ accepted \in [End -> Seq(Nat \ {0})] /\ accepted[e] \in Seq(Nat \ {0})
      /\ Below(accepted[e], n)
  <2>1. inHand[e] \in DataMessage /\ Below(accepted[e], n)
    BY <1>1, <1>2 DEF Control, Hands, Judged
  <2> QED
    BY <1>1, <2>1 DEF DataMessage, Frame, TypeOK
<1> HIDE DEF f, n
<1>5. /\ accepted' \in [End -> Seq(Nat \ {0})] /\ accepted'[f] = accepted[f]
      /\ \/ inHand[e].state = "good" /\ accepted'[e] = Append(accepted[e], n)
         \/ inHand[e].state # "good" /\ accepted'[e] = accepted[e]
  BY <1>2, <1>3, <1>4, AcceptsOneMore
<1>6. TypeOK'
  BY <1>1, <1>2, <1>3, <1>5 DEF TypeOK, Moves, Place, endVars, Frame
<1>7. Control'
  BY <1>1, <1>2, <1>3, <1>4, ReaderControl DEF endVars, Place
<1>8. Judged'
  BY <1>1, <1>2, <1>3, <1>5 DEF Judged
<1>9. /\ Rising(accepted[e]) => Rising(accepted'[e])
      /\ \A k \in Nat : Within(accepted[e], k) => Within(accepted'[e], k)
  BY <1>4, <1>5, AcceptsOneMore
<1>10. AcceptedOnceInOrder'
  <2>1. \A x \in End : Rising(accepted[x])
    BY <1>1 DEF AcceptedOnceInOrder, Rising
  <2>2. \A x \in End : Rising(accepted'[x])
    BY <1>3, <1>5, <1>9, <2>1
  <2> QED
    BY <2>2 DEF AcceptedOnceInOrder, Rising
<1>11. TrueMeansAccepted'
  <2> SUFFICES ASSUME NEW x \in End, NEW k \in confirmed'[x], keep'[Peer(x)]
               PROVE  Within(accepted'[Peer(x)], k)
    BY DEF TrueMeansAccepted, Within
  <2>1. Within(accepted[Peer(x)], k) /\ k \in Nat /\ Peer(x) \in End
    BY <1>1, <1>2, PeerFacts DEF TrueMeansAccepted, Within, endVars, TypeOK, Frame
  <2> QED
    BY <1>3, <1>5, <1>9, <2>1
<1>12. Direction(f)'
  <2> SUFFICES ASSUME keep'[e] PROVE Direction(f)'
    BY <1>3 DEF Direction
  <2>1. /\ OneToken(f) /\ Names(f) /\ Counted(f) /\ Below(accepted[e], sent[f] + 1)
        /\ sent[f] \in Nat
    BY <1>1, <1>2, <1>3 DEF Direction, TypeOK, endVars
  <2>2. Judging(f) /\ n = sent[f]
    BY <1>2, <1>3, <2>1 DEF Names, Judging, n
  <2>3. ~Sending(f) /\ ~DataIn(f) /\ ~ReplyIn(f) /\ ~Dealing(f) /\ ~succeeded[f]
    BY <2>1, <2>2 DEF OneToken
  <2>4. ~Sending(f)' /\ ~DataIn(f)' /\ ~ReplyIn(f)' /\ ~Dealing(f)' /\ ~succeeded'[f]
    BY <1>2, <1>3, <2>3 DEF DataIn, ReplyIn, Dealing, endVars
  <2>5. OneToken(f)'
    BY <1>2, <1>3, <2>1, <2>4 DEF OneToken, endVars
  <2>6. Names(f)'
    BY <1>2, <1>3, <2>1, <2>2, <2>4 DEF Names, Dealing, n
  <2>7. Below(accepted'[e], sent[f] + 1)
    <3>1. sent[f] + 1 \in Nat /\ n < sent[f] + 1
      BY <1>4, <2>1, <2>2
    <3>2. Below(Append(accepted[e], n), sent[f] + 1)
      BY <1>4, <2>1, <3>1, AcceptsOneMore
    <3> QED
      BY <1>5, <2>1, <3>2
  <2>8. Pending(f)' => Below(accepted'[e], sent[f])
    BY <1>2, <1>3, <1>4, <1>5, <2>2, <2>4 DEF Pending, ReplyIn, Has, Reply, Dealing
  <2>9. Settled(f)' => Within(accepted'[e], sent[f])
    BY <1>2, <1>3, <1>4, <1>5, <2>2, <2>4, AcceptsOneMore DEF Settled, ReplyIn, Has, Reply, Dealing
  <2>10. Len(accepted[e]) + 1 = sent[f]
    BY <1>2, <1>3, <2>1 DEF Pending, Counted
  <2>11. Counted(f)'
    <3>1. CASE inHand[e].state = "good"
      <4>1. Len(accepted'[e]) = Len(accepted[e]) + 1
        BY <1>4, <1>5, <3>1, AcceptsOneMore
      <4>2. ~Pending(f)'
        BY <1>2, <1>3, <2>4, <3>1 DEF Pending, ReplyIn, Has, Reply, Dealing
      <4> QED
        BY <1>2, <1>3, <2>10, <4>1, <4>2 DEF Counted
    <3>2. CASE inHand[e].state # "good"
      <4>1. ~Settled(f)'
        BY <1>2, <1>3, <2>4, <3>2 DEF Settled, ReplyIn, Has, Reply, Dealing
      <4> QED
        BY <1>2, <1>3, <1>5, <2>4, <2>10, <3>2, <4>1 DEF Counted
    <3> QED
      BY <3>1, <3>2
  <2> QED
    BY <1>2, <1>3, <2>5, <2>6, <2>7, <2>8, <2>9, <2>11 DEF Direction
<1>13. Direction(e)'
  <2>1. FewerData(net'[f], net[f]) /\ FewerReplies(net'[e], net[e])
    BY <1>2, FewerIfSame
  <2> QED
    BY <1>1, <1>2, <1>3, <1>5, <2>1, DirectionStays DEF endVars, f
<1> QED
  BY <1>3, <1>6, <1>7, <1>8, <1>10, <1>11, <1>12, <1>13 DEF IndInv

(* The reply to the peer's frame, true if it was accepted. *)
LEMMA ReplyGoes ==
  ASSUME TypeOK, NEW e \in End, NEW ok \in BOOLEAN, NEW t \in Thread,
         NEW next, NEW skip, SendReply(t, e, ok, next, skip)
  PROVE  \/ Goto(t, skip) /\ net' = net
         \/ /\ Goto(t, next)
            /\ \E m \in ReplyMessage :
                  /\ m.kind = IF ok THEN "correct" ELSE "error"
                  /\ net' = net \/ net' = [net EXCEPT ![Peer(e)] = Append(@, m)]
<1>1. CASE Invalid(e) \/ replyHash[e] = Nothing
  BY <1>1 DEF SendReply
<1>2. CASE ~(Invalid(e) \/ replyHash[e] = Nothing)
  <2> DEFINE m == Answer(replyHash[e].of, ok, Quoted(replyHash[e]))
  <2>1. replyHash[e] \in DataMessage
    BY <1>2 DEF TypeOK
  <2>2. Quoted(replyHash[e]) \in Digests
    BY <2>1, LinkAssumption DEF Quoted, Digest, Digests, DataMessage, Frame
  <2>3. m \in ReplyMessage /\ m.kind = IF ok THEN "correct" ELSE "error"
    BY <2>1, <2>2 DEF Answer, ReplyMessage, DataMessage
  <2>4. Goto(t, next) /\ Deliver(e, m)
    BY <1>2 DEF SendReply
  <2> HIDE DEF m
  <2> QED
    BY <2>3, <2>4 DEF Deliver
<1> QED
  BY <1>1, <1>2

LEMMA ReplyFrameInv ==
  ASSUME IndInv, NEW e \in End, ReplyFrame(Reader(e))
  PROVE  IndInv'
<1> DEFINE f == Peer(e)
<1>1. /\ TypeOK /\ Control /\ Judged /\ \A x \in End : Direction(x)
      /\ AcceptedOnceInOrder /\ TrueMeansAccepted
  BY DEF IndInv
<1>2. PICK ok \in BOOLEAN : ok <=> inHand[e].state = "good"
  OBVIOUS
<1>3. /\ pc[Reader(e)] = "reply" /\ SendReply(Reader(e), e, ok, "clear", "head")
      /\ inHand' = [inHand EXCEPT ![e] = Nothing]
      /\ UNCHANGED <<serial, condLock, endVars, histVars>>
  <2>1. (inHand[e].state = "good") = ok
    BY <1>2
  <2> QED
    BY <2>1, Homes DEF ReplyFrame
<1>4. PICK place \in {"head", "clear"}, m \in ReplyMessage :
         /\ Goto(Reader(e), place)
         /\ m.kind = IF ok THEN "correct" ELSE "error"
         /\ net' = net \/ net' = [net EXCEPT ![f] = Append(@, m)]
  <2>1. \E m \in ReplyMessage : m.kind = IF ok THEN "correct" ELSE "error"
    <3>1. Answer(1, ok, None) \in ReplyMessage
      BY DEF Answer, ReplyMessage, Frame, Digests
    <3> QED
      BY <3>1 DEF Answer
  <2> QED
    BY <1>1, <1>3, <2>1, ReplyGoes, Homes
<1>5. /\ f \in End /\ f # e /\ Peer(f) = e /\ \A x \in End : x = e \/ x = f
      /\ Moves(Reader(e), place) /\ pc'[Reader(e)] = place /\ pc'[Reader(f)] = pc[Reader(f)]
      /\ \A x \in End : \A u \in Senders(x) : pc'[u] = pc[u]
      /\ \A x \in End : Sending(x)' <=> Sending(x)
  BY <1>1, <1>4, ReaderMoves DEF Place
<1>6. /\ net' \in [End -> Seq(Message)] /\ net'[e] = net[e] /\ m \in Message
      /\ net'[f] = net[f] \/ net'[f] = Append(net[f], m)
      /\ net[f] \in Seq(Message)
  BY <1>1, <1>4, <1>5, NetGrows DEF Message
<1> HIDE DEF f
<1>12. /\ inHand' \in [End -> DataMessage \cup ReplyMessage \cup {Nothing}]
       /\ inHand'[f] = inHand[f] /\ \A x \in End \ {e} : inHand'[x] = inHand[x]
  BY <1>1, <1>3, <1>5 DEF TypeOK
<1>7. TypeOK'
  BY <1>1, <1>3, <1>5, <1>6, <1>12 DEF TypeOK, Moves, Place, endVars, histVars, Message
<1>8. Control'
  BY <1>1, <1>3, <1>4, <1>12, ReaderControl DEF endVars, histVars, Place
<1>9. Judged'
  BY <1>1, <1>3, <1>4, <1>5, <1>12 DEF Judged, histVars
<1>10. Direction(f)'
  <2> SUFFICES ASSUME keep'[e] PROVE Direction(f)'
    BY <1>5 DEF Direction
  <2>1. /\ OneToken(f) /\ Names(f) /\ Counted(f) /\ Below(accepted[e], sent[f] + 1)
        /\ Pending(f) => Below(accepted[e], sent[f])
        /\ Settled(f) => Within(accepted[e], sent[f])
    BY <1>1, <1>3, <1>5 DEF Direction, endVars
  <2>2. Judging(f)
    BY <1>3, <1>5 DEF Judging
  <2>3. ~Sending(f) /\ ~DataIn(f) /\ ~ReplyIn(f) /\ ~Dealing(f) /\ ~succeeded[f]
    BY <2>1, <2>2 DEF OneToken
  <2>4. ~Sending(f)' /\ ~DataIn(f)' /\ ~Judging(f)' /\ ~Dealing(f)' /\ ~succeeded'[f]
    BY <1>3, <1>4, <1>5, <1>6, <2>3 DEF DataIn, Judging, Dealing, endVars
  <2>5. Few(net'[f], Reply)
    <3>1. Few(net[f], Reply) /\ ~Has(net[f], Reply)
      BY <2>1, <2>3 DEF OneToken, ReplyIn
    <3>2. Few(Append(net[f], m), Reply)
      BY <1>6, <3>1, GrowsByKind
    <3> QED
      BY <1>6, <3>1, <3>2
  <2>6. OneToken(f)'
    BY <1>5, <1>6, <2>1, <2>4, <2>5 DEF OneToken
  <2>7. Names(f)'
    BY <1>3, <1>5, <1>6, <1>12, <2>1, <2>4 DEF Names, Dealing, histVars
  <2>8. /\ ~Has(net[f], {"error"}) /\ ~Has(net[f], {"correct"})
    BY <2>3 DEF ReplyIn, Has, Reply
  <2>9. /\ Has(net'[f], {"error"}) => ~ok
        /\ Has(net'[f], {"correct"}) => ok
    <3>1. \A K \in {{"error"}, {"correct"}} :
             Has(Append(net[f], m), K) <=> Has(net[f], K) \/ m.kind \in K
      BY <1>6, GrowsByKind
    <3>2. /\ Has(Append(net[f], m), {"error"}) => ~ok
          /\ Has(Append(net[f], m), {"correct"}) => ok
      BY <1>4, <2>8, <3>1
    <3> QED
      BY <1>6, <2>8, <3>2
  <2>10. Pending(f)' => Pending(f)
    BY <1>2, <1>3, <1>4, <1>5, <1>12, <2>4, <2>9 DEF Pending, Dealing
  <2>11. Settled(f)' => Settled(f)
    BY <1>2, <1>3, <1>4, <1>5, <1>12, <2>4, <2>9 DEF Settled, Dealing
  <2>12. Counted(f)'
    BY <1>3, <1>5, <2>1, <2>4, <2>10, <2>11 DEF Counted, histVars
  <2> QED
    BY <1>3, <1>5, <2>1, <2>6, <2>7, <2>10, <2>11, <2>12 DEF Direction, histVars
<1>11. Direction(e)'
  <2>1. FewerData(net'[f], net[f]) /\ FewerReplies(net'[e], net[e])
    BY <1>6, FewerIfOther, FewerIfSame
  <2> QED
    BY <1>1, <1>3, <1>4, <1>5, <1>12, <2>1, DirectionStays DEF endVars, histVars, f
<1> QED
  BY <1>1, <1>3, <1>5, <1>7, <1>8, <1>9, <1>10, <1>11
  DEF IndInv, AcceptedOnceInOrder, TrueMeansAccepted, endVars, histVars

(* The frame the reply is compared with is the last one sent, as no sender  *)
(* is between CreateFrame and SetLastSentBytes then.                        *)
LEMMA DealReplyInv ==
  ASSUME IndInv, NEW e \in End, DealReply(Reader(e))
  PROVE  IndInv'
<1> DEFINE f == Peer(e)
<1>1. /\ TypeOK /\ Control /\ Judged /\ \A x \in End : Direction(x)
      /\ AcceptedOnceInOrder /\ TrueMeansAccepted
  BY DEF IndInv
<1>2. PICK place \in {"head", "mark", "resend"} :
         /\ pc[Reader(e)] = "deal" /\ Goto(Reader(e), place)
         /\ inHand' = [inHand EXCEPT ![e] = IF Matches(e) /\ @.kind = "error"
                                          THEN Data(lastSent[e], "good") ELSE Nothing]
         /\ place # "head" => Matches(e)
         /\ place = "mark" => inHand[e].kind = "correct"
         /\ place = "resend" => inHand[e].kind # "correct"
         /\ UNCHANGED <<serial, condLock, endVars, net, histVars>>
  <2>1. Reader(e)[2] = e
    BY Homes
  <2>2. /\ pc[Reader(e)] = "deal"
        /\ Goto(Reader(e), IF ~Matches(e) THEN "head"
                           ELSE IF inHand[e].kind = "correct" THEN "mark" ELSE "resend")
        /\ inHand' = [inHand EXCEPT ![e] = IF Matches(e) /\ @.kind = "error"
                                          THEN Data(lastSent[e], "good") ELSE Nothing]
        /\ UNCHANGED <<serial, condLock, endVars, net, histVars>>
    BY <2>1, Zenon DEF DealReply
  <2>3. CASE ~Matches(e)
    BY <2>2, <2>3
  <2>4. CASE Matches(e) /\ inHand[e].kind = "correct"
    BY <2>2, <2>4
  <2>5. CASE Matches(e) /\ inHand[e].kind # "correct"
    BY <2>2, <2>5
  <2> QED
    BY <2>3, <2>4, <2>5
<1>3. /\ f \in End /\ f # e /\ Peer(f) = e /\ \A x \in End : x = e \/ x = f
      /\ Moves(Reader(e), place) /\ pc'[Reader(e)] = place /\ pc'[Reader(f)] = pc[Reader(f)]
      /\ \A x \in End : \A u \in Senders(x) : pc'[u] = pc[u]
      /\ \A x \in End : Sending(x)' <=> Sending(x)
  BY <1>1, <1>2, ReaderMoves DEF Place
<1> HIDE DEF f
<1>4. /\ inHand'[f] = inHand[f]
      /\ place = "resend" => inHand'[e] \in DataMessage /\ inHand'[e].of = lastSent[e]
      /\ inHand' \in [End -> DataMessage \cup ReplyMessage \cup {Nothing}]
  <2>1. lastSent[e] \in Nat
    BY <1>1 DEF TypeOK
  <2>2. Matches(e) => /\ Data(lastSent[e], "good") \in DataMessage
                      /\ Data(lastSent[e], "good").of = lastSent[e]
    BY <2>1 DEF Matches, Data, DataMessage, Frame
  <2>3. inHand[e].kind \in {"correct", "error"}
    BY <1>1, <1>2 DEF Control, Hands, ReplyMessage
  <2>4. /\ Data(lastSent[e], "good") \in DataMessage \/ ~Matches(e)
        /\ inHand \in [End -> DataMessage \cup ReplyMessage \cup {Nothing}]
    BY <1>1, <2>2 DEF TypeOK
  <2>5. inHand' = [inHand EXCEPT ![e] = IF Matches(e) /\ inHand[e].kind = "error"
                                        THEN Data(lastSent[e], "good") ELSE Nothing]
    BY <1>2
  <2>6. inHand'[f] = inHand[f] /\ inHand' \in [End -> DataMessage \cup ReplyMessage \cup {Nothing}]
    BY <1>3, <2>4, <2>5
  <2>7. place = "resend" => inHand'[e] = Data(lastSent[e], "good") /\ Matches(e)
    BY <1>2, <2>3, <2>4, <2>5
  <2> QED
    BY <2>2, <2>6, <2>7
<1>5. TypeOK'
  BY <1>1, <1>2, <1>3, <1>4 DEF TypeOK, Moves, Place, endVars, histVars
<1>6. Control'
  <2>1. \A x \in End \ {e} : inHand'[x] = inHand[x]
    BY <1>3, <1>4
  <2> QED
    BY <1>1, <1>2, <1>4, <2>1, ReaderControl DEF endVars, histVars, Place
<1>7. Judged'
  BY <1>1, <1>2, <1>3, <1>4 DEF Judged, histVars
<1>8. Direction(e)'
  <2> SUFFICES ASSUME keep'[f] PROVE Direction(e)'
    BY DEF Direction, f
  <2>1. /\ OneToken(e) /\ Names(e) /\ Counted(e) /\ Below(accepted[f], sent[e] + 1)
        /\ Pending(e) => Below(accepted[f], sent[e])
        /\ Settled(e) => Within(accepted[f], sent[e])
    BY <1>1, <1>2, <1>3 DEF Direction, f, endVars
  <2>2. Dealing(e) /\ inHand[e].kind \in Reply
    BY <1>1, <1>2 DEF Dealing, Control, Hands, ReplyMessage, Reply
  <2>3. ~Sending(e) /\ ~DataIn(e) /\ ~Judging(e) /\ ~ReplyIn(e) /\ ~succeeded[e]
    BY <2>1, <2>2 DEF OneToken
  <2>4. ~Sending(e)' /\ ~DataIn(e)' /\ ~Judging(e)' /\ ~ReplyIn(e)' /\ ~succeeded'[e]
    BY <1>2, <1>3, <2>3 DEF DataIn, Judging, ReplyIn, endVars, f
  <2>5. lastSent[e] = sent[e]
    BY <1>1, <2>3 DEF Control, Armed, Sending
  <2>6. OneToken(e)'
    BY <1>2, <1>3, <2>1, <2>4 DEF OneToken, f
  <2>7. Names(e)'
    BY <1>2, <1>3, <1>4, <2>1, <2>4, <2>5 DEF Names, f, histVars
  <2>8. Pending(e)' => Pending(e)
    BY <1>2, <1>3, <2>2, <2>4 DEF Pending, Judging, ReplyIn, Has, Reply, f
  <2>9. Settled(e)' => Settled(e)
    BY <1>2, <1>3, <2>4 DEF Settled, Judging, ReplyIn, Has, Reply, f
  <2>10. Counted(e)'
    BY <1>2, <2>1, <2>4, <2>8, <2>9 DEF Counted, f, histVars
  <2> QED
    BY <1>2, <2>1, <2>6, <2>7, <2>8, <2>9, <2>10 DEF Direction, f, histVars
<1>9. Direction(f)'
  <2>1. FewerData(net'[e], net[e]) /\ FewerReplies(net'[f], net[f])
    BY <1>2, FewerIfSame
  <2> QED
    BY <1>1, <1>2, <1>3, <1>4, <2>1, DirectionStays DEF endVars, histVars
<1> QED
  BY <1>1, <1>2, <1>3, <1>5, <1>6, <1>7, <1>8, <1>9
  DEF IndInv, AcceptedOnceInOrder, TrueMeansAccepted, endVars, histVars

LEMMA MarkInv ==
  ASSUME IndInv, NEW e \in End, Mark(Reader(e))
  PROVE  IndInv'
<1> DEFINE f == Peer(e)
<1>1. /\ TypeOK /\ Control /\ Judged /\ \A x \in End : Direction(x)
      /\ AcceptedOnceInOrder /\ TrueMeansAccepted
  BY DEF IndInv
<1>2. /\ pc[Reader(e)] = "mark" /\ Goto(Reader(e), "wake")
      /\ succeeded' = [succeeded EXCEPT ![e] = TRUE]
      /\ UNCHANGED <<serial, condLock, socket, keep, lastSent, replyHash, net, inHand, histVars>>
  BY Homes DEF Mark
<1>3. /\ f \in End /\ f # e /\ Peer(f) = e /\ \A x \in End : x = e \/ x = f
      /\ Moves(Reader(e), "wake") /\ pc'[Reader(e)] = "wake" /\ pc'[Reader(f)] = pc[Reader(f)]
      /\ \A x \in End : \A u \in Senders(x) : pc'[u] = pc[u]
      /\ \A x \in End : Sending(x)' <=> Sending(x)
  BY <1>1, <1>2, ReaderMoves DEF Place
<1> HIDE DEF f
<1>4. /\ succeeded' \in [End -> BOOLEAN] /\ succeeded'[f] = succeeded[f]
  BY <1>1, <1>2, <1>3 DEF TypeOK
<1>5. TypeOK'
  BY <1>1, <1>2, <1>3, <1>4 DEF TypeOK, Moves, Place, histVars
<1>6. Control'
  BY <1>1, <1>2, ReaderControl DEF histVars, Place
<1>7. Judged'
  BY <1>1, <1>2, <1>3 DEF Judged, histVars
<1>8. Direction(e)'
  <2> SUFFICES ASSUME keep'[f] PROVE Direction(e)'
    BY DEF Direction, f
  <2>1. /\ OneToken(e) /\ Names(e) /\ Counted(e) /\ Below(accepted[f], sent[e] + 1)
        /\ Settled(e) => Within(accepted[f], sent[e])
    BY <1>1, <1>2, <1>3 DEF Direction, f
  <2>2. Dealing(e) /\ Settled(e)
    BY <1>2 DEF Dealing, Settled
  <2>3. ~Sending(e) /\ ~DataIn(e) /\ ~Judging(e) /\ ~ReplyIn(e)
    BY <2>1, <2>2 DEF OneToken
  <2>4. ~Sending(e)' /\ ~DataIn(e)' /\ ~Judging(e)' /\ ~ReplyIn(e)' /\ ~Dealing(e)'
    BY <1>2, <1>3, <2>3 DEF DataIn, Judging, ReplyIn, Dealing, f
  <2>5. OneToken(e)'
    BY <1>2, <1>3, <2>1, <2>4 DEF OneToken, f, Sending
  <2>6. Names(e)'
    BY <1>2, <1>3, <2>1, <2>4 DEF Names, f, histVars
  <2>7. ~Pending(e)'
    BY <1>2, <1>3, <2>4 DEF Pending, Judging, ReplyIn, Has, Reply, f
  <2>8. Counted(e)'
    BY <1>2, <2>1, <2>2, <2>7 DEF Counted, f, histVars
  <2> QED
    BY <1>2, <2>1, <2>2, <2>5, <2>6, <2>7, <2>8 DEF Direction, f, histVars
<1>9. Direction(f)'
  <2>1. FewerData(net'[e], net[e]) /\ FewerReplies(net'[f], net[f])
    BY <1>2, FewerIfSame
  <2> QED
    BY <1>1, <1>2, <1>3, <1>4, <2>1, DirectionStays DEF histVars
<1> QED
  BY <1>1, <1>2, <1>3, <1>5, <1>6, <1>7, <1>8, <1>9
  DEF IndInv, AcceptedOnceInOrder, TrueMeansAccepted, histVars

LEMMA ResendInv ==
  ASSUME IndInv, NEW e \in End, Resend(Reader(e))
  PROVE  IndInv'
<1> DEFINE f == Peer(e)
<1>1. /\ TypeOK /\ Control /\ Judged /\ \A x \in End : Direction(x)
      /\ AcceptedOnceInOrder /\ TrueMeansAccepted
  BY DEF IndInv
<1>2. /\ pc[Reader(e)] = "resend" /\ Goto(Reader(e), "head")
      /\ DeliverFrame(e, inHand[e].of) \/ UNCHANGED <<net, damaged>>
      /\ inHand' = [inHand EXCEPT ![e] = Nothing]
      /\ UNCHANGED <<serial, condLock, endVars, sent, accepted, confirmed>>
  BY Homes DEF Resend
<1>3. /\ f \in End /\ f # e /\ Peer(f) = e /\ \A x \in End : x = e \/ x = f
      /\ Moves(Reader(e), "head") /\ pc'[Reader(e)] = "head" /\ pc'[Reader(f)] = pc[Reader(f)]
      /\ \A x \in End : \A u \in Senders(x) : pc'[u] = pc[u]
      /\ \A x \in End : Sending(x)' <=> Sending(x)
  BY <1>1, <1>2, ReaderMoves DEF Place
<1>4. inHand[e].of \in Frame
  BY <1>1, <1>2 DEF Control, Hands, DataMessage
<1>5. PICK m \in DataMessage :
         m.of = inHand[e].of /\ (net' = net \/ net' = [net EXCEPT ![f] = Append(@, m)])
  <2>1. CASE DeliverFrame(e, inHand[e].of)
    BY <1>1, <1>4, <2>1, FrameGoes
  <2>2. CASE UNCHANGED <<net, damaged>>
    <3>1. Data(inHand[e].of, "good") \in DataMessage /\ Data(inHand[e].of, "good").of = inHand[e].of
      BY <1>4 DEF Data, DataMessage
    <3> QED
      BY <2>2, <3>1
  <2> QED
    BY <1>2, <2>1, <2>2
<1>6. /\ net' \in [End -> Seq(Message)] /\ net'[e] = net[e]
      /\ net'[f] = net[f] \/ net'[f] = Append(net[f], m)
      /\ net[f] \in Seq(Message)
  BY <1>1, <1>3, <1>5, NetGrows DEF Message
<1>7. damaged' \in Seq(End \X Damage) /\ Len(damaged') <= MaxDamage
  BY <1>1, <1>2, <1>4, FrameGoes DEF TypeOK
<1> HIDE DEF f
<1>13. /\ inHand' \in [End -> DataMessage \cup ReplyMessage \cup {Nothing}]
       /\ inHand'[f] = inHand[f] /\ \A x \in End \ {e} : inHand'[x] = inHand[x]
  BY <1>1, <1>2, <1>3 DEF TypeOK
<1>8. TypeOK'
  BY <1>1, <1>2, <1>3, <1>6, <1>7, <1>13 DEF TypeOK, Moves, Place, endVars, Message
<1>9. Control'
  BY <1>1, <1>2, <1>13, ReaderControl DEF endVars, Place
<1>10. Judged'
  BY <1>1, <1>2, <1>3, <1>13 DEF Judged
<1>11. Direction(e)'
  <2> SUFFICES ASSUME keep'[f] PROVE Direction(e)'
    BY DEF Direction, f
  <2>1. keep[f] /\ OneToken(e) /\ Names(e)
    BY <1>1, <1>2, <1>3 DEF Direction, f, endVars
  <2>2. Dealing(e) /\ Pending(e) /\ m.of = sent[e]
    BY <1>2, <1>5, <2>1 DEF Dealing, Pending, Names
  <2>3. ~Sending(e) /\ ~DataIn(e) /\ ~Judging(e) /\ ~ReplyIn(e) /\ ~succeeded[e]
    BY <2>1, <2>2 DEF OneToken
  <2>4. ~Sending(e)' /\ ~Judging(e)' /\ ~ReplyIn(e)' /\ ~Dealing(e)' /\ ~succeeded'[e]
    BY <1>2, <1>3, <1>6, <2>3 DEF Judging, ReplyIn, Dealing, endVars, f
  <2> QED
    BY <1>1, <1>2, <1>3, <1>6, <1>8, <2>1, <2>2, <2>3, <2>4, OnItsWay DEF f
<1>12. Direction(f)'
  <2>1. FewerData(net'[e], net[e]) /\ FewerReplies(net'[f], net[f])
    BY <1>6, FewerIfOther, FewerIfSame DEF Message
  <2> QED
    BY <1>1, <1>2, <1>3, <1>13, <2>1, DirectionStays DEF endVars
<1> QED
  BY <1>1, <1>2, <1>3, <1>8, <1>9, <1>10, <1>11, <1>12
  DEF IndInv, AcceptedOnceInOrder, TrueMeansAccepted, endVars

-----------------------------------------------------------------------------
(* The reply sent on closing names whatever frame is at hand, accepted or   *)
(* not; but the end that sends it does not keep receiving.                  *)
LEMMA CloseReplyInv ==
  ASSUME IndInv, NEW t \in Thread, CloseReply(t)
  PROVE  IndInv'
<1> DEFINE e == Home(t)
<1> DEFINE f == Peer(e)
<1>0. /\ e \in End /\ f \in End /\ f # e /\ Peer(f) = e /\ \A x \in End : x = e \/ x = f
      /\ \A x \in End : Reader(x) \in Thread
  BY Homes, PeerFacts
<1>1. /\ TypeOK /\ Control /\ Judged /\ \A x \in End : Direction(x)
      /\ AcceptedOnceInOrder /\ TrueMeansAccepted
  BY DEF IndInv
<1>2. /\ pc[t] = "ackout" /\ SendReply(t, e, TRUE, "ackclear", "shut")
      /\ UNCHANGED <<serial, condLock, endVars, inHand, histVars>>
  BY DEF CloseReply
<1>3. ~keep[e]
  BY <1>1, <1>2 DEF Control, Closing
<1>4. PICK place \in {"ackclear", "shut"}, m \in ReplyMessage :
         /\ Goto(t, place)
         /\ net' = net \/ net' = [net EXCEPT ![f] = Append(@, m)]
  <2>1. Answer(1, TRUE, None) \in ReplyMessage
    BY DEF Answer, ReplyMessage, Frame, Digests
  <2> QED
    BY <1>0, <1>1, <1>2, <2>1, ReplyGoes
<1>5. /\ Moves(t, place) /\ pc'[t] = place /\ \A u \in Thread \ {t} : pc'[u] = pc[u]
  BY <1>0, <1>1, <1>4, GotoMoves DEF Place, Moves
<1>6. /\ net' \in [End -> Seq(Message)] /\ net'[e] = net[e] /\ m \in Message
      /\ net'[f] = net[f] \/ net'[f] = Append(net[f], m)
      /\ net[f] \in Seq(Message)
  BY <1>0, <1>1, <1>4, NetGrows DEF Message
<1> HIDE DEF e, f
<1>7. TypeOK'
  BY <1>1, <1>2, <1>5, <1>6 DEF TypeOK, Moves, Place, endVars, histVars, Message
<1>8. Control'
  <2>1. place \in {"joining", "ackout", "ackclear"} => ~keep'[Home(t)]
    BY <1>2, <1>3 DEF e, endVars
  <2>2. /\ place \notin Active /\ place \notin {"check", "arm", "judge", "reply", "mark", "resend", "deal"}
    BY DEF Active
  <2>3. /\ \A x \in End : sent'[x] = sent[x] /\ lastSent'[x] = lastSent[x]
                          /\ inHand'[x] = inHand[x] /\ keep'[x] = keep[x]
        /\ serial' = serial /\ pc[t] \notin {"idle", "arm", "disarm"}
    BY <1>2 DEF endVars, histVars
  <2> QED
    BY <1>1, <1>5, <2>1, <2>2, <2>3, ControlStays
<1>9. Judged'
  BY <1>0, <1>1, <1>2, <1>4, <1>5 DEF Judged, histVars
<1>10. Direction(f)'
  BY <1>0, <1>2, <1>3 DEF Direction, endVars
<1>11. Direction(e)'
  <2>1. FewerData(net'[f], net[f]) /\ FewerReplies(net'[e], net[e])
    BY <1>6, FewerIfOther, FewerIfSame
  <2>2. \A u \in Senders(e) : /\ pc'[u] = pc[u] \/ pc'[u] \in {"ackclear", "shut"}
                              /\ pc[u] \in {"arm", "disarm"} => pc'[u] = pc[u]
    BY <1>2, <1>4, <1>5, <1>0, Homes
  <2>3. Sending(e)' => Sending(e)
    BY <2>2 DEF Sending
  <2>4. \A x \in End : pc'[Reader(x)] = pc[Reader(x)] \/ pc'[Reader(x)] \in {"ackclear", "shut"}
    BY <1>0, <1>4, <1>5
  <2> QED
    BY <1>0, <1>1, <1>2, <2>1, <2>2, <2>3, <2>4, DirectionStays DEF endVars, histVars, f
<1> QED
  BY <1>0, <1>1, <1>2, <1>7, <1>8, <1>9, <1>10, <1>11
  DEF IndInv, AcceptedOnceInOrder, TrueMeansAccepted, endVars, histVars

-----------------------------------------------------------------------------
LEMMA InitIndInv == Init => IndInv
<1> SUFFICES ASSUME Init PROVE IndInv
  OBVIOUS
<1>0. /\ \A t \in Sender : t \notin Recv /\ t \notin Owner
      /\ \A r \in Recv : r \notin Sender /\ r \notin Owner
      /\ \A o \in Owner : o \notin Sender /\ o \notin Recv
      /\ \A t \in Thread : t \in Sender \/ t \in Recv \/ t \in Owner
  BY Homes, LinkAssumption DEF Thread
<1>1. /\ \A t \in Sender : t \in Thread => pc[t] = "idle"
      /\ \A r \in Recv : r \in Thread => pc[r] = "head"
      /\ \A o \in Owner : o \in Thread => pc[o] = "up"
      /\ pc \in [Thread -> Place]
  <2>1. pc = [t \in Thread |-> CASE t \in Sender -> "idle"
                                 [] t \in Recv   -> "head"
                                 [] t \in Owner  -> "up"]
    BY DEF Init
  <2> QED
    BY <1>0, <2>1 DEF Place
<1>2. \A t \in Thread : pc[t] \in {"idle", "head", "up"}
  BY <1>0, <1>1
<1>3. \A e \in End : pc[Reader(e)] = "head" /\ \A t \in Senders(e) : pc[t] = "idle"
  BY <1>1, Homes
<1>4. <<>> \in Seq(DataMessage \cup ReplyMessage) /\ <<>> \in Seq(Frame) /\ Len(<<>>) = 0
  BY EmptySeq
<1>5. TypeOK
  <2>1. \A e \in End : 0 <= MaxFrames(e)
    BY LinkAssumption DEF MaxFrames
  <2>2. damaged \in Seq(End \X Damage) /\ Len(damaged) <= MaxDamage
    BY LinkAssumption, EmptySeq DEF Init
  <2>3. /\ net \in [End -> Seq(DataMessage \cup ReplyMessage)]
        /\ accepted \in [End -> Seq(Frame)]
    BY <1>4 DEF Init
  <2>4. /\ sent \in [End -> Nat] /\ \A e \in End : sent[e] <= MaxFrames(e)
    BY <2>1 DEF Init
  <2> QED
    BY <1>1, <2>2, <2>3, <2>4 DEF Init, TypeOK, Place
<1>6. Control
  <2>1. \A t \in ServerSender : t \in Thread
    BY DEF Thread, Sender
  <2>2. Serial
    BY <1>1, <2>1 DEF Serial, Sender
  <2>3. Numbered /\ Armed /\ Hands
    BY <1>3 DEF Init, Numbered, Armed, Hands, Active
  <2>4. Closing
    BY <1>2 DEF Closing
  <2> QED
    BY <2>2, <2>3, <2>4 DEF Control
<1>7. Judged
  BY <1>3 DEF Judged
<1>8. ASSUME NEW e \in End PROVE Direction(e)
  <2>1. /\ Peer(e) \in End /\ net[e] = <<>> /\ net[Peer(e)] = <<>> /\ accepted[Peer(e)] = <<>>
        /\ sent[e] = 0
    BY PeerFacts DEF Init
  <2>2. /\ \A K : ~Has(<<>>, K) /\ Few(<<>>, K)
        /\ \A n : All(<<>>, n) /\ Below(<<>>, n)
    BY <1>4 DEF Has, Few, All, Below
  <2>3. ~Sending(e) /\ ~Judging(e) /\ ~Dealing(e)
    BY <1>3, <2>1 DEF Sending, Judging, Dealing
  <2>4. OneToken(e) /\ Names(e)
    BY <1>3, <2>1, <2>2, <2>3 DEF OneToken, Names, DataIn, ReplyIn, Dealing
  <2>5. ~Settled(e)
    BY <1>3, <2>1, <2>2 DEF Settled
  <2>6. ~Pending(e)
    BY <1>3, <2>1, <2>2, <2>3 DEF Pending, DataIn
  <2>7. Counted(e)
    BY <1>4, <2>1, <2>6 DEF Counted
  <2> QED
    BY <2>1, <2>2, <2>4, <2>5, <2>7 DEF Direction
<1>9. AcceptedOnceInOrder /\ TrueMeansAccepted
  BY <1>4 DEF Init, AcceptedOnceInOrder, TrueMeansAccepted
<1> QED
  BY <1>5, <1>6, <1>7, <1>8, <1>9 DEF IndInv

(* IndInv is inductive: every step of every thread keeps it. *)
LEMMA NextIndInv == IndInv /\ [Next]_vars => IndInv'
<1> SUFFICES ASSUME IndInv, [Next]_vars PROVE IndInv'
  OBVIOUS
<1>1. ASSUME NEW t \in Sender, Begin(t) \/ SendStep(t) \/ WaitTimeout(t) PROVE IndInv'
  BY <1>1, BeginInv, SendGivesUpInv, CheckDisconnectsInv, CheckPassesInv, ArmInv, DisarmInv,
     PushInv, TestInv, FinalInv, WaitTimeoutInv DEF SendStep
<1>2. ASSUME NEW r \in Recv, RecvStep(r) PROVE IndInv'
  <2>1. r[2] \in End /\ r = Reader(r[2]) /\ r \in Thread
    BY Homes
  <2> QED
    BY <1>2, <2>1, ReceiverMovesInv, ReceiveReplyInv, ReceiveDataInv, JudgeInv, ReplyFrameInv,
       TidyInv, DealReplyInv, MarkInv, ResendInv DEF RecvStep
<1>3. ASSUME NEW o \in Owner, DisconnectBegin(o) \/ DisconnectNothing(o) \/ OwnerStep(o)
      PROVE  IndInv'
  BY <1>3, OwnerMovesInv, DisconnectStrayInv, DropInv DEF OwnerStep
<1>4. ASSUME NEW t \in Thread, CloseStep(t) PROVE IndInv'
  BY <1>4, ForceBeginsInv, DropInv, CloseReplyInv, TidyInv DEF CloseStep
<1>5. CASE UNCHANGED vars
  <2>1. TypeOK'
    BY <1>5 DEF vars, endVars, histVars, IndInv, TypeOK
  <2>2. Control'
    BY <1>5 DEF vars, endVars, histVars, IndInv, Control, Serial, Numbered, Armed, Hands, Closing
  <2>3. \A e \in End : Direction(e)'
    BY <1>5 DEF vars, endVars, histVars, IndInv, Direction, OneToken, Names, Counted, Pending, Settled,
                Sending, DataIn, Judging, ReplyIn, Dealing
  <2> QED
    BY <1>5, <2>1, <2>2, <2>3
    DEF vars, endVars, histVars, IndInv, Judged, AcceptedOnceInOrder, TrueMeansAccepted
<1> QED
  BY <1>1, <1>2, <1>3, <1>4, <1>5 DEF Next

LEMMA SpecIndInv == Spec => []IndInv
BY InitIndInv, NextIndInv, PTL DEF Spec

(* Both ends, the connection and the histories keep their types. *)
THEOREM TypeCorrect == Spec => []TypeOK
<1>1. IndInv => TypeOK
  BY DEF IndInv
<1> QED
  BY <1>1, SpecIndInv, PTL

(* Whatever is damaged, sent again, answered late or cut off by a           *)
(* disconnect, no frame is accepted twice or before an earlier one.         *)
THEOREM OnceInOrder == Spec => []AcceptedOnceInOrder
<1>1. IndInv => AcceptedOnceInOrder
  BY DEF IndInv
<1> QED
  BY <1>1, SpecIndInv, PTL

(* Send answers true only for a frame the peer has accepted, unless the     *)
(* peer was taking the connection down.                                     *)
THEOREM TrueIsAccepted == Spec => []TrueMeansAccepted
<1>1. IndInv => TrueMeansAccepted
  BY DEF IndInv
<1> QED
  BY <1>1, SpecIndInv, PTL

-----------------------------------------------------------------------------
(* The refinement.  As long as both ends keep receiving, Counted says that  *)
(* the frame asked for, accepted or confirmed is the one AckedDelivery      *)
(* submits, delivers or confirms.                                           *)

BothKeep == \A e \in End : keep[e]

LEMMA OtherIsPeer == \A e \in End : Delivery!Other(e) = Peer(e)
BY DEF Delivery!Other, Peer

LEMMA InitImplements == Init => Delivery!AckInit
BY DEF Init, Delivery!AckInit

LEMMA SubmitStep ==
  ASSUME IndInv, BothKeep, NEW t \in Sender, CheckPasses(t)
  PROVE  Delivery!Submit(Home(t))
<1> DEFINE e == Home(t)
<1>1. e \in End /\ t \in Senders(e) /\ Peer(e) \in End
  BY Homes, PeerFacts
<1> HIDE DEF e
<1>2. pc[t] = "check" /\ succeeded[e] /\ sent' = [sent EXCEPT ![e] = @ + 1]
      /\ UNCHANGED <<accepted, confirmed>>
  BY DEF CheckPasses, IsSendSucceeded, e
<1>3. ~Sending(e)
  <2> SUFFICES ASSUME NEW u \in Senders(e), pc[u] \in {"arm", "disarm", "push"} PROVE FALSE
    BY DEF Sending
  <2>1. u = t
    BY <1>1, <1>2, Solo DEF IndInv, Control
  <2> QED
    BY <1>2, <2>1
<1>4. Len(accepted[Peer(e)]) = sent[e]
  BY <1>1, <1>2, <1>3 DEF IndInv, BothKeep, Direction, Counted
<1> QED
  BY <1>1, <1>2, <1>4, OtherIsPeer DEF Delivery!Submit, Delivery!AllDelivered, e

LEMMA DeliverStep ==
  ASSUME IndInv, BothKeep, NEW r \in Recv, Judge(r)
  PROVE  Delivery!Deliver(Peer(r[2])) \/ UNCHANGED Delivery!ackVars
<1> DEFINE e == r[2]
<1> DEFINE f == Peer(e)
<1>1. /\ e \in End /\ f \in End /\ Peer(f) = e /\ r = Reader(e)
  BY Homes, PeerFacts
<1> HIDE DEF e, f
<1>2. /\ pc[r] = "judge" /\ UNCHANGED <<sent, confirmed>>
      /\ accepted' = IF inHand[e].state = "good"
                     THEN [accepted EXCEPT ![e] = Append(@, inHand[e].of)] ELSE accepted
  BY DEF Judge, e
<1>3. Len(accepted[e]) + 1 = sent[f] /\ inHand[e].of = sent[f]
  BY <1>1, <1>2 DEF IndInv, BothKeep, Direction, Counted, Pending, Names, Judging
<1>4. ~Delivery!AllDelivered(f)
  <2>1. Len(accepted[e]) \in Nat
    BY <1>1 DEF IndInv, TypeOK
  <2> QED
    BY <1>1, <1>3, <2>1, OtherIsPeer DEF Delivery!AllDelivered
<1>5. CASE inHand[e].state = "good"
  BY <1>1, <1>2, <1>3, <1>4, <1>5, OtherIsPeer DEF Delivery!Deliver, e, f
<1>6. CASE inHand[e].state # "good"
  BY <1>2, <1>6 DEF Delivery!ackVars
<1> QED
  BY <1>5, <1>6

LEMMA ConfirmStep ==
  ASSUME IndInv, BothKeep, NEW t \in Sender, Test(t) \/ Final(t)
  PROVE  Delivery!Confirm(Home(t)) \/ UNCHANGED Delivery!ackVars
<1> DEFINE e == Home(t)
<1>1. e \in End /\ t \in Senders(e) /\ Peer(e) \in End
  BY Homes, PeerFacts
<1> HIDE DEF e
<1>2. pc[t] \in {"test", "final"} /\ UNCHANGED <<sent, accepted>>
  BY DEF Test, Final
<1>3. CASE IsSendSucceeded(e)
  <2>1. Finish(t, TRUE)
    BY <1>3 DEF Test, Final, Finish, e
  <2>2. confirmed' = [confirmed EXCEPT ![e] = @ \cup {sent[e]}]
    BY <2>1 DEF Finish, e
  <2>3. Settled(e)
    BY <1>1, <1>2, <1>3 DEF Settled, IsSendSucceeded
  <2>4. Len(accepted[Peer(e)]) = sent[e]
    BY <1>1, <2>3 DEF IndInv, BothKeep, Direction, Counted
  <2> QED
    BY <1>1, <1>2, <2>2, <2>4, OtherIsPeer DEF Delivery!Confirm, Delivery!AllDelivered, e
<1>4. CASE ~IsSendSucceeded(e)
  <2>1. confirmed' = confirmed
    BY <1>4 DEF Test, Final, Finish, e
  <2> QED
    BY <1>2, <2>1 DEF Delivery!ackVars
<1> QED
  BY <1>3, <1>4

(* Every step of two ends that keep receiving is a step of AckedDelivery or *)
(* changes nothing of it.                                                   *)
LEMMA StepImplements ==
  ASSUME IndInv, BothKeep, [Next]_vars
  PROVE  [Delivery!AckNext]_(Delivery!ackVars)
<1>1. ASSUME NEW t \in Sender, Begin(t) \/ SendStep(t) \/ WaitTimeout(t)
      PROVE  [Delivery!AckNext]_(Delivery!ackVars)
  <2>1. Home(t) \in End
    BY Homes
  <2>2. CASE CheckPasses(t)
    BY <2>1, <2>2, SubmitStep DEF Delivery!AckNext
  <2>3. CASE Test(t) \/ Final(t)
    BY <2>1, <2>3, ConfirmStep DEF Delivery!AckNext
  <2>4. CASE Begin(t) \/ CheckDisconnects(t) \/ Arm(t) \/ Disarm(t) \/ WaitTimeout(t)
    BY <2>4 DEF Begin, CheckDisconnects, Arm, Disarm, WaitTimeout, histVars, Delivery!ackVars
  <2>5. CASE CheckRefuses(t) \/ PushFails(t) \/ ClockFails(t) \/ Refuse(t) \/ Push(t)
    BY <2>5 DEF CheckRefuses, PushFails, ClockFails, Refuse, Push, Finish, Delivery!ackVars
  <2> QED
    BY <1>1, <2>2, <2>3, <2>4, <2>5 DEF SendStep
<1>2. ASSUME NEW r \in Recv, RecvStep(r) PROVE [Delivery!AckNext]_(Delivery!ackVars)
  <2>1. r[2] \in End /\ Peer(r[2]) \in End
    BY Homes, PeerFacts
  <2>2. CASE Judge(r)
    BY <2>1, <2>2, DeliverStep DEF Delivery!AckNext
  <2>3. CASE ~Judge(r)
    BY <1>2, <2>3
    DEF RecvStep, StopReceiving, ConnectionEnds, ReceiveReply, ReceiveData, ReplyFrame, ReplyDone,
        ClearReply, DealReply, Mark, Wake, Resend, Leave, histVars, Delivery!ackVars
  <2> QED
    BY <2>2, <2>3
<1>3. ASSUME NEW o \in Owner, DisconnectBegin(o) \/ DisconnectNothing(o) \/ OwnerStep(o)
      PROVE  [Delivery!AckNext]_(Delivery!ackVars)
  BY <1>3 DEF DisconnectBegin, DisconnectNothing, OwnerStep, DisconnectWait, DisconnectClockFails,
              DisconnectTimeout, DisconnectStray, histVars, Delivery!ackVars
<1>4. ASSUME NEW t \in Thread, CloseStep(t) PROVE [Delivery!AckNext]_(Delivery!ackVars)
  BY <1>4 DEF CloseStep, ForceNothing, ForceWake, ForceDrop, CloseReply, CloseReplyDone, ClearReply,
              Close, Forget, histVars, Delivery!ackVars
<1>5. CASE UNCHANGED vars
  BY <1>5 DEF vars, histVars, Delivery!ackVars
<1> QED
  BY <1>1, <1>2, <1>3, <1>4, <1>5 DEF Next

(* For any number of frames, threads and damage, and whoever times out or   *)
(* closes: a step taken while both ends keep receiving is one AckedDelivery *)
(* allows.                                                                  *)
THEOREM DeliversWhileBothKeep ==
  Spec => [][BothKeep => Delivery!AckNext \/ UNCHANGED Delivery!ackVars]_vars
<1>1. IndInv /\ [Next]_vars => [BothKeep => Delivery!AckNext \/ UNCHANGED Delivery!ackVars]_vars
  BY StepImplements
<1> QED
  BY <1>1, SpecIndInv, PTL DEF Spec

-----------------------------------------------------------------------------
(* Without a Disconnect and with an answer in SEND_TIMEOUT_SECONDS nothing  *)
(* leads into the closing code, at either end.                              *)

Down == {"stop", "drop", "ackout", "ackclear", "shut", "void", "joinbegin", "joining"}
Up   == /\ \A e \in End : keep[e] /\ socket[e] = "open"
        /\ \A t \in Thread : pc[t] \notin Down

LEMMA InitUp == Init => Up
<1> SUFFICES ASSUME Init PROVE Up
  OBVIOUS
<1>1. \A t \in Thread : pc[t] \in {"idle", "head", "up"}
  BY DEF Init, Thread
<1> QED
  BY <1>1 DEF Init, Up, Down

LEMMA NextUp ==
  ASSUME MayStall = {}, Closer = {}, TypeOK, Up, [Next]_vars
  PROVE  Up'
<1>0. \A t \in Thread : pc[t] \notin Down
  BY DEF Up
<1>1. ASSUME UNCHANGED <<socket, keep>>, NEW t \in Thread, NEW place \in Place \ Down,
             Moves(t, place)
      PROVE  Up'
  <2> SUFFICES ASSUME NEW u \in Thread PROVE pc'[u] \notin Down
    BY <1>1 DEF Up
  <2> QED
    BY <1>0, <1>1 DEF Moves, Down
<1>2. ASSUME NEW t \in Thread, NEW place \in Place \ Down, Goto(t, place), UNCHANGED <<socket, keep>>
      PROVE  Up'
  BY <1>1, <1>2, GotoMoves
<1>3. ASSUME NEW t \in Sender, Begin(t) \/ SendStep(t) \/ WaitTimeout(t) PROVE Up'
  <2>1. UNCHANGED <<socket, keep>>
    BY <1>3 DEF Begin, SendStep, CheckRefuses, CheckDisconnects, CheckPasses, Arm, Disarm, Push,
                PushFails, Test, ClockFails, Final, Refuse, WaitTimeout, endVars
  <2>2. \E place \in {"check", "idle", "arm", "disarm", "push", "test", "waiting", "final"} : Goto(t, place)
    BY <1>3 DEF Begin, SendStep, CheckRefuses, CheckDisconnects, CheckPasses, Arm, Disarm, Push,
                PushFails, Test, ClockFails, Final, Refuse, WaitTimeout, Finish
  <2> QED
    BY <1>2, <2>1, <2>2 DEF Thread, Place, Down
<1>4. ASSUME NEW r \in Recv, RecvStep(r) PROVE Up'
  <2>0. r \in Thread /\ r[2] \in End /\ Peer(r[2]) \in End
    BY Homes, PeerFacts
  <2>1. UNCHANGED <<socket, keep>>
    BY <1>4 DEF RecvStep, StopReceiving, ConnectionEnds, ReceiveReply, ReceiveData, Judge, ReplyFrame,
                ReplyDone, ClearReply, DealReply, Mark, Wake, Resend, Leave, endVars
  <2>2. ~ConnectionEnds(r)
    BY <2>0 DEF ConnectionEnds, Up
  <2>3. CASE Wake(r)
    BY <1>1, <2>0, <2>1, <2>3, WakeMoves DEF Wake, Place, Down
  <2>4. CASE Leave(r)
    BY <1>1, <2>0, <2>1, <2>4, LeaveMoves DEF Place, Down
  <2>5. CASE ~Wake(r) /\ ~Leave(r)
    <3>1. \E place \in {"leave", "deal", "judge", "reply", "head", "clear", "mark", "resend", "wake"} :
             Goto(r, place)
      BY <1>4, <2>2, <2>5
      DEF RecvStep, StopReceiving, ReceiveReply, ReceiveData, Judge, ReplyFrame, SendReply,
          ReplyDone, ClearReply, DealReply, Mark, Resend
    <3> QED
      BY <1>2, <2>0, <2>1, <3>1 DEF Place, Down
  <2> QED
    BY <2>3, <2>4, <2>5
<1>5. ASSUME NEW o \in Owner, DisconnectBegin(o) \/ DisconnectNothing(o) \/ OwnerStep(o)
      PROVE  Up'
  <2>1. o \in Thread
    BY Homes
  <2> QED
    BY <1>0, <1>5, <2>1 DEF DisconnectBegin, DisconnectNothing, OwnerStep, DisconnectWait,
                            DisconnectClockFails, DisconnectTimeout, DisconnectStray, Down
<1>6. ASSUME NEW t \in Thread, CloseStep(t) PROVE Up'
  BY <1>0, <1>6 DEF CloseStep, ForceNothing, ForceWake, ForceDrop, CloseReply, CloseReplyDone,
                    Close, Forget, Down
<1>7. CASE UNCHANGED vars
  BY <1>7 DEF vars, endVars, Up
<1> QED
  BY <1>3, <1>4, <1>5, <1>6, <1>7 DEF Next

(* A connection that no end closes or finds stalled implements              *)
(* AckedDelivery, whatever is damaged and whichever Sends time out.         *)
THEOREM LinkDelivers ==
  ASSUME MayStall = {}, Closer = {}
  PROVE  Spec => ImplementsDelivery
<1>1. Init => Up
  BY InitUp
<1>2. TypeOK /\ Up /\ [Next]_vars => Up'
  BY NextUp
<1>3. IndInv /\ Up /\ [Next]_vars => [Delivery!AckNext]_(Delivery!ackVars)
  BY StepImplements DEF Up, BothKeep
<1>4. Init => Delivery!AckInit
  BY InitImplements
<1> QED
  BY <1>1, <1>2, <1>3, <1>4, SpecIndInv, TypeCorrect, PTL
  DEF Spec, ImplementsDelivery, Delivery!AckSpec

(* Few messages of some kinds are one or none. *)
LEMMA FewIsOne ==
  ASSUME NEW s \in Seq(Message), NEW K, Few(s, K)
  PROVE  Cardinality({i \in 1..Len(s) : s[i].kind \in K}) <= 1
<1> DEFINE S == {i \in 1..Len(s) : s[i].kind \in K}
<1>1. S = {} => Cardinality(S) = 0
  <2> HIDE DEF S
  <2> QED
    BY FS_EmptySet
<1>2. ASSUME NEW i \in S PROVE Cardinality(S) = 1
  <2>1. S = {i}
    BY DEF Few
  <2> HIDE DEF S
  <2> QED
    BY <2>1, FS_Singleton
<1>3. Cardinality(S) = 0 \/ Cardinality(S) = 1
  <2> HIDE DEF S
  <2>1. S = {} \/ \E i : i \in S
    OBVIOUS
  <2> QED
    BY <1>1, <1>2, <2>1
<1> QED
  BY <1>3

(* On a connection that no end closes or finds stalled, send never blocks   *)
(* with _cond_obj and _send_obj held (clientbase.cpp:911): at most one      *)
(* frame and one reply are on their way to an end.                          *)
THEOREM SendsDoNotBlock ==
  ASSUME MayStall = {}, Closer = {}
  PROVE  Spec => []SendNeverBlocks
<1>1. Init => Up
  BY InitUp
<1>2. TypeOK /\ Up /\ [Next]_vars => Up'
  BY NextUp
<1>3. IndInv /\ Up => SendNeverBlocks
  <2> SUFFICES ASSUME IndInv, Up, NEW e \in End
               PROVE  /\ Cardinality(OnTheWay(e, {"data"})) <= 1
                      /\ Cardinality(OnTheWay(e, Reply)) <= 1
    BY DEF SendNeverBlocks, Reply
  <2>1. Peer(e) \in End /\ Peer(Peer(e)) = e /\ net[e] \in Seq(Message)
    BY PeerFacts DEF IndInv, TypeOK, Message
  <2>2. OneToken(e) /\ OneToken(Peer(e))
    BY <2>1 DEF IndInv, Direction, Up
  <2>3. Few(net[e], {"data"}) /\ Few(net[e], Reply)
    BY <2>1, <2>2 DEF OneToken
  <2> QED
    BY <2>1, <2>3, FewIsOne DEF OnTheWay
<1> QED
  BY <1>1, <1>2, <1>3, SpecIndInv, TypeCorrect, PTL DEF Spec

=============================================================================

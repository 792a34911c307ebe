-------------------------- MODULE ConnectionProofs --------------------------
(* For any number of connections: what Connect answers, that no descriptor  *)
(* is left open and that nothing runs past the destructor, whatever the     *)
(* timeouts, failures and overlapping closings of the application and of    *)
(* the receiving threads.                                                   *)
EXTENDS Connection, TLAPS

AppPlace == {"idle", "socket", "dial", "create", "clock", "wait", "woken", "stop",
             "exitwait", "force", "drop", "close", "forget", "return", "destroyed"}
ReceiverPlace == {"none", "look", "flag", "watch", "select", "recv", "announce",
                  "force", "drop", "close", "forget", "exit", "gone"}
Calls == {"none", "Connect", "Disconnect", "Destroy", "Force"}

(* What the calls have established at each place of the application. *)
Threads ==
    /\ at \in [Thread -> AppPlace \cup ReceiverPlace]
    /\ at[App] = "socket" => sock = 0 /\ opened < MaxConns
    /\ at[App] \in {"dial", "create", "clock", "wait"} => opened # 0
    /\ call = "Destroy" => at[App] \in {"stop", "exitwait", "close", "forget", "return"}

(* _socket is the last socket opened; only an accepted connection has an    *)
(* instance, and MSG_CONNECT comes from it.                                 *)
Links ==
    /\ sock \in {0, opened}
    /\ \A c \in Conn : c > opened => peer[c] = "none" /\ ~arrived[c]
    /\ opened # 0 /\ arrived[opened] => history.sent

(* As long as no Connect began over an older receiving thread: there is at  *)
(* most one, none before it is created, and only while thread is not null;  *)
(* who is about to forget the socket has seen it shut; and an announcement  *)
(* is of the last connection.                                               *)
Alone ==
    ~history.crowded =>
       /\ at[App] \in {"socket", "dial", "create"} \/ ~thread => Receivers = {}
       /\ \A c \in Receivers : \A d \in Receivers : c = d
       /\ \A t \in Thread : at[t] = "forget" => sock = 0 \/ mine[sock] = "shut"
       /\ \A c \in Conn : at[c] = "announce" => history.sent

(* What the call under way is about to answer, and by what right: a Connect *)
(* that closes again answers false, and one that was told of MSG_CONNECT,   *)
(* or whose wait woke by itself, answers true; a destructor whose           *)
(* Disconnect answers true has seen the receiving thread end.               *)
Ending == {"stop", "exitwait", "force", "drop", "close", "forget"}
Says ==
    /\ call = "Connect" /\ at[App] \in Ending => ~answer
    /\ history.heard => at[App] = "woken" \/ (at[App] = "return" /\ answer)
    /\ \/ at[App] = "woken"
       \/ call = "Connect" /\ at[App] = "return" /\ answer
       => history.sent \/ history.stray \/ history.crowded
    /\ \/ call = "Destroy" /\ at[App] \in {"close", "forget", "return"}
       \/ at[App] = "destroyed"
       => ~answer \/ history.stray \/ history.crowded \/ Receivers = {}

IndInv == TypeOK /\ Threads /\ Links /\ Alone /\ Says /\ NoSocketLeft

HistoryRecord == [sent : BOOLEAN, heard : BOOLEAN, stray : BOOLEAN, crowded : BOOLEAN]

(* The types, with those of the flags one by one. *)
Fields ==
    /\ sock \in 0..MaxConns /\ opened \in 0..MaxConns
    /\ keep \in BOOLEAN /\ thread \in BOOLEAN /\ answer \in BOOLEAN
    /\ at[App] \in AppPlace /\ \A c \in Conn : at[c] \in ReceiverPlace
    /\ call \in Calls /\ fd \in [Conn -> 0..MaxConns]
    /\ mine \in [Conn -> {"none", "dialing", "open", "shut"}]
    /\ peer \in [Conn -> {"none", "accepted", "running", "closed", "leaked"}]
    /\ arrived \in [Conn -> BOOLEAN]
    /\ history \in HistoryRecord

LEMMA Typed == (TypeOK <=> Fields) /\ (TypeOK' <=> Fields')
BY DEF TypeOK, Fields, AppPlace, ReceiverPlace, Calls, HistoryRecord

LEMMA InitIndInv == Init => IndInv
<1> SUFFICES ASSUME Init PROVE IndInv
  OBVIOUS
<1> USE ConnectionAssumption DEF Conn, Thread, App
<1>0. /\ \A t \in Thread : (IF t = App THEN "idle" ELSE "none") \in AppPlace \cup ReceiverPlace
      /\ App \in Thread /\ \A c \in Conn : c \in Thread /\ c # App
  BY DEF AppPlace, ReceiverPlace
<1>1. /\ at \in [Thread -> AppPlace \cup ReceiverPlace]
      /\ at[App] = "idle" /\ \A c \in Conn : at[c] = "none"
  <2>1. at = [t \in Thread |-> IF t = App THEN "idle" ELSE "none"]
    BY DEF Init
  <2> HIDE DEF App, Conn, Thread
  <2> QED
    BY <1>0, <2>1
<1>2. history \in HistoryRecord /\ ~history.heard
  BY DEF Init, HistoryRecord
<1>3. Threads
  BY <1>1 DEF Init, Threads
<1>4. TypeOK
  <2>1. at[App] \in AppPlace /\ \A c \in Conn : at[c] \in ReceiverPlace
    BY <1>1 DEF AppPlace, ReceiverPlace
  <2>z. 0 \in 0..MaxConns
    OBVIOUS
  <2>2. Fields
    BY <1>2, <2>1, <2>z DEF Init, Fields, Calls
  <2> QED
    BY <2>2, Typed
<1>5. Receivers = {}
  BY <1>1 DEF Receivers
<1>6. Links /\ Alone /\ Says
  BY <1>1, <1>2, <1>5 DEF Init, Links, Alone, Says, Ending
<1>7. NoSocketLeft
  BY DEF Init, NoSocketLeft
<1> QED
  BY <1>3, <1>4, <1>6, <1>7 DEF IndInv

(* Where everybody is after one thread has moved. *)
LEMMA Moved ==
  ASSUME Threads, NEW t \in Thread, NEW place \in AppPlace \cup ReceiverPlace, Goes(t, place)
  PROVE  /\ at' \in [Thread -> AppPlace \cup ReceiverPlace]
         /\ at'[t] = place /\ \A u \in Thread \ {t} : at'[u] = at[u]
BY DEF Goes, Threads

(* A step of one thread that neither opens, closes nor forgets a socket. *)
LEMMA MoveInv ==
  ASSUME IndInv, NEW t \in Thread, NEW place, Goes(t, place),
         t = App => place \in AppPlace \ {"socket", "dial", "create", "clock", "forget"},
         t = App /\ place = "wait" => at[App] = "clock",
         t # App => /\ at[t] \notin {"none", "gone"}
                    /\ place \in ReceiverPlace \ {"none", "forget"},
         t # App /\ place = "announce" /\ ~history.crowded => history.sent,
         UNCHANGED <<sock, thread, opened, mine>>, history' \in HistoryRecord,
         history'.sent = history.sent, history'.crowded = history.crowded,
         keep' \in BOOLEAN, answer' \in BOOLEAN, call' \in Calls,
         fd' \in [Conn -> 0..MaxConns], peer' = peer, 
         arrived' \in [Conn -> BOOLEAN], \A c \in Conn : arrived'[c] => arrived[c],
         call' = "Destroy" =>
            at'[App] \in {"stop", "exitwait", "close", "forget", "return"},
         Receivers' \subseteq Receivers => Says'
  PROVE  IndInv'
<1> USE DEF Conn, Thread, App
<1>0. TypeOK /\ Threads /\ Links /\ Alone /\ NoSocketLeft
  BY DEF IndInv
<1>1. place \in AppPlace \cup ReceiverPlace
  OBVIOUS
<1>2. /\ at' \in [Thread -> AppPlace \cup ReceiverPlace]
      /\ at'[t] = place /\ \A u \in Thread \ {t} : at'[u] = at[u]
  BY <1>0, <1>1, Moved
<1>t. Fields
  BY <1>0, Typed
<1>3. at'[App] \in AppPlace /\ \A c \in Conn : at'[c] \in ReceiverPlace
  BY <1>t, <1>2 DEF Fields
<1>4. Receivers' \subseteq Receivers
  BY <1>2 DEF Receivers
<1>5. at'[App] \notin {"socket", "dial", "create", "clock", "wait", "forget"} 
      \/ at'[App] = at[App] \/ (at[App] = "clock" /\ at'[App] = "wait")
  BY <1>2
<1>6. Threads'
  BY <1>0, <1>2, <1>5 DEF Threads
<1>7. TypeOK'
  <2>1. Fields'
    BY <1>t, <1>3 DEF Fields
  <2> QED
    BY <2>1, Typed
<1>8. Links'
  BY <1>0, <1>t DEF Links, Fields
<1>9. /\ \A u \in Thread : at'[u] = "forget" => at[u] = "forget"
      /\ \A c \in Conn : at'[c] = "announce" =>
            at[c] = "announce" \/ (~history.crowded => history.sent)
  BY <1>2
<1>10. Alone'
  BY <1>0, <1>4, <1>5, <1>9 DEF Alone
<1>11. NoSocketLeft'
  BY <1>0 DEF NoSocketLeft
<1> QED
  BY <1>4, <1>6, <1>7, <1>8, <1>10, <1>11 DEF IndInv

LEMMA ReceiverMoveInv ==
  ASSUME IndInv, NEW r \in Conn, NEW place \in ReceiverPlace \ {"none", "forget"},
         Goes(r, place), at[r] \notin {"none", "gone"},
         place = "announce" /\ ~history.crowded => history.sent,
         UNCHANGED <<sock, thread, opened, mine, history, call, answer, peer>>,
         keep' \in BOOLEAN, fd' \in [Conn -> 0..MaxConns],
         arrived' \in [Conn -> BOOLEAN], \A c \in Conn : arrived'[c] => arrived[c]
  PROVE  IndInv'
<1>0. TypeOK /\ Threads /\ Says /\ Fields
  BY Typed DEF IndInv
<1>1. r # App /\ App \in Thread /\ r \in Thread
  BY DEF App, Conn, Thread
<1>2. at'[App] = at[App]
  BY <1>0, <1>1, Moved
<1>3. answer' \in BOOLEAN /\ call' \in Calls /\ history' \in HistoryRecord
  BY <1>0 DEF Fields
<1>4. call' = "Destroy" =>
         at'[App] \in {"stop", "exitwait", "close", "forget", "return"}
  BY <1>0, <1>2 DEF Threads
<1>5. Receivers' \subseteq Receivers => Says'
  BY <1>0, <1>2 DEF Says
<1> QED
  BY <1>1, <1>3, <1>4, <1>5, MoveInv

(* The receiving thread looks, waits, reads and gives up. *)
LEMMA ReceiverQuietInv ==
  ASSUME IndInv, NEW r \in Conn,
         Look(r) \/ Watch(r) \/ Select(r) \/ Recv(r) \/ ForceTest(r) \/ ForceDrop(r)
  PROVE  IndInv'
<1>0. Fields /\ Links /\ r # App
  BY Typed DEF IndInv, App, Conn
<1> USE <1>0
<1>1. keep \in BOOLEAN /\ fd \in [Conn -> 0..MaxConns] /\ arrived \in [Conn -> BOOLEAN]
      /\ sock \in 0..MaxConns /\ 0 \in 0..MaxConns /\ answer \in BOOLEAN
  BY ConnectionAssumption DEF Fields
<1>2. CASE Look(r)
  <2>1. PICK place \in {"flag", "watch", "exit"} : Goes(r, place)
    BY <1>2 DEF Look
  <2> QED
    BY <1>1, <1>2, <2>1, ReceiverMoveInv DEF Look, objectVars, linkVars, ReceiverPlace
<1>3. CASE Watch(r)
  <2>1. fd' \in [Conn -> 0..MaxConns]
    BY <1>1, <1>3 DEF Watch
  <2> QED
    BY <1>1, <1>3, <2>1, ReceiverMoveInv DEF Watch, Moves, objectVars, linkVars, ReceiverPlace
<1>4. CASE Select(r)
  <2>1. PICK place \in {"look", "recv", "force"} : Goes(r, place)
    BY <1>4 DEF Select
  <2>2. fd' \in [Conn -> 0..MaxConns]
    BY <1>1, <1>4 DEF Select
  <2> QED
    BY <1>1, <1>4, <2>1, <2>2, ReceiverMoveInv DEF Select, objectVars, linkVars, ReceiverPlace
<1>5. CASE Recv(r)
  <2>1. PICK place \in {"announce", "force"} :
           /\ Goes(r, place)
           /\ place = "announce" => /\ sock # 0 /\ arrived[sock]
                                    /\ arrived' = [arrived EXCEPT ![sock] = FALSE]
           /\ place = "force" => arrived' = arrived
    BY <1>5 DEF Recv
  <2>2. /\ arrived' \in [Conn -> BOOLEAN]
        /\ \A c \in Conn : arrived'[c] => arrived[c]
    BY <1>1, <2>1
  <2>3. place = "announce" => history.sent
    <3>1. sock # 0 => sock = opened
      BY <1>1 DEF Links
    <3> QED
      BY <2>1, <3>1 DEF Links
  <2> QED
    BY <1>1, <1>5, <2>1, <2>2, <2>3, ReceiverMoveInv DEF Recv, objectVars, ReceiverPlace
<1>6. CASE ForceTest(r)
  <2>1. PICK place \in {"exit", "drop"} : Goes(r, place)
    BY <1>6 DEF ForceTest, Closed
  <2>2. answer' = answer
    BY <1>1, <1>6 DEF ForceTest
  <2> QED
    BY <1>1, <1>6, <2>1, <2>2, ReceiverMoveInv DEF ForceTest, objectVars, linkVars, ReceiverPlace
<1>7. CASE ForceDrop(r)
  <2>1. keep' \in BOOLEAN
    BY <1>1, <1>7 DEF ForceDrop, Fields
  <2> QED
    BY <1>1, <1>7, <2>1, ReceiverMoveInv DEF ForceDrop, Moves, objectVars, linkVars, ReceiverPlace
<1> QED
  BY <1>2, <1>3, <1>4, <1>5, <1>6, <1>7

(* The application's steps that concern no socket and no thread. *)
LEMMA AppMoveInv ==
  ASSUME IndInv,
         NEW place \in AppPlace \ {"socket", "dial", "create", "clock", "forget"},
         Goes(App, place), place = "wait" => at[App] = "clock",
         UNCHANGED <<sock, thread, fd, opened, mine, peer, arrived>>,
         history' \in HistoryRecord,
         history'.sent = history.sent, history'.crowded = history.crowded,
         keep' \in BOOLEAN, answer' \in BOOLEAN, call' \in Calls,
         call' = "Destroy" =>
            place \in {"stop", "exitwait", "close", "forget", "return"},
         call' = "Connect" /\ place \in Ending => ~answer',
         history'.heard => place = "woken" \/ (place = "return" /\ answer'),
         place = "woken" \/ (call' = "Connect" /\ place = "return" /\ answer')
            => history.sent \/ history'.stray \/ history.crowded,
         (call' = "Destroy" /\ place \in {"close", "return"}) \/ place = "destroyed"
            => ~answer' \/ history'.stray \/ history.crowded \/ Receivers = {}
  PROVE  IndInv'
<1>0. Fields /\ Threads /\ App \in Thread
  BY Typed DEF IndInv, Thread
<1>1. at'[App] = place
  BY <1>0, Moved
<1>2. fd' \in [Conn -> 0..MaxConns] /\ arrived' \in [Conn -> BOOLEAN] /\ peer' = peer
  BY <1>0 DEF Fields
<1>3. Receivers' \subseteq Receivers => Says'
  BY <1>1 DEF Says, Ending, HistoryRecord
<1> QED
  BY <1>0, <1>1, <1>2, <1>3, MoveInv

(* The same with the history as it was. *)
LEMMA AppStillInv ==
  ASSUME IndInv,
         NEW place \in AppPlace \ {"socket", "dial", "create", "clock", "forget", "woken"},
         Goes(App, place), place = "wait" => at[App] = "clock",
         at[App] # "woken", at[App] # "return",
         UNCHANGED <<sock, thread, fd, opened, mine, peer, arrived, history>>,
         keep' \in BOOLEAN, answer' \in BOOLEAN, call' \in Calls,
         call' = "Destroy" =>
            place \in {"stop", "exitwait", "close", "forget", "return"},
         call' = "Connect" /\ place \in Ending \cup {"return"} => ~answer',
         (call' = "Destroy" /\ place \in {"close", "return"}) \/ place = "destroyed"
            => ~answer' \/ history.stray \/ history.crowded \/ Receivers = {}
  PROVE  IndInv'
<1>0. Fields /\ Says
  BY Typed DEF IndInv
<1>1. ~history'.heard /\ history' \in HistoryRecord
  BY <1>0 DEF Fields, Says
<1> QED
  BY <1>1, AppMoveInv

LEMMA CallQuietInv ==
  ASSUME IndInv, 
         \/ ConnectBegin /\ sock # 0
         \/ CallBegin \/ Return \/ ForceTest(App) \/ ForceDrop(App)
  PROVE  IndInv'
<1>0. Fields /\ Threads /\ Alone /\ Says
  BY Typed DEF IndInv
<1>1. /\ keep \in BOOLEAN /\ answer \in BOOLEAN /\ call \in Calls /\ thread \in BOOLEAN
      /\ history \in HistoryRecord
  BY <1>0 DEF Fields
<1>2. CASE ConnectBegin /\ sock # 0
  <2>1. /\ at[App] = "idle" /\ Goes(App, "return") /\ answer' = FALSE /\ call' = "Connect"
        /\ UNCHANGED <<sock, keep, thread, fd, opened, mine, peer, arrived, history>>
    BY <1>2 DEF ConnectBegin, Ends, linkVars
  <2> QED
    BY <1>1, <2>1, AppStillInv DEF AppPlace, Calls
<1>3. CASE CallBegin
  <2>1. PICK c \in {"Disconnect", "Destroy", "Force"} :
           call' = c /\ Goes(App, IF c = "Force" THEN "force" ELSE "stop")
    BY <1>3 DEF CallBegin
  <2>2. at[App] = "idle"
        /\ UNCHANGED <<sock, keep, thread, answer, fd, opened, mine, peer, arrived, history>>
    BY <1>3 DEF CallBegin, linkVars, objectVars
  <2> QED
    BY <1>1, <2>1, <2>2, AppStillInv DEF AppPlace, Calls
<1>4. CASE Return
  <2>1. /\ at[App] = "return" /\ Goes(App, IF call = "Destroy" THEN "destroyed" ELSE "idle")
        /\ call' = "none" /\ answer' = (answer \/ call # "Destroy")
        /\ UNCHANGED <<sock, keep, thread, fd, opened, mine, peer, arrived>>
        /\ history' = [history EXCEPT !.heard = FALSE,
                                      !.stray = history.stray /\ call = "Destroy"]
    BY <1>4 DEF Return, Moves, linkVars, objectVars
  <2>2. CASE call = "Destroy"
    <3>1. /\ history' \in HistoryRecord
          /\ history'.sent = history.sent /\ history'.crowded = history.crowded
          /\ ~history'.heard /\ history'.stray = history.stray
      BY <1>1, <2>1, <2>2 DEF HistoryRecord
    <3>2. ~answer \/ history.stray \/ history.crowded \/ Receivers = {}
      BY <1>0, <2>1, <2>2 DEF Says
    <3> QED
      BY <1>1, <2>1, <2>2, <3>1, <3>2, AppMoveInv DEF AppPlace, Calls, Ending
  <2>3. CASE call # "Destroy"
    <3>1. /\ history' \in HistoryRecord /\ ~history'.heard
          /\ history'.sent = history.sent /\ history'.crowded = history.crowded
      BY <1>1, <2>1, <2>3 DEF HistoryRecord
    <3> QED
      BY <1>1, <2>1, <2>3, <3>1, AppMoveInv DEF AppPlace, Calls, Ending
  <2> QED
    BY <2>2, <2>3
<1>5. CASE ForceTest(App)
  <2>1. /\ at[App] = "force" /\ (Goes(App, "return") \/ Goes(App, "drop"))
        /\ answer' = (answer /\ sock # 0)
        /\ UNCHANGED <<sock, keep, thread, call, fd, opened, mine, peer, arrived, history>>
    BY <1>5 DEF ForceTest, Closed, linkVars, objectVars
  <2>2. call # "Destroy" /\ (call = "Connect" => ~answer)
    BY <1>0, <2>1 DEF Threads, Says, Ending
  <2> QED
    BY <1>1, <2>1, <2>2, AppStillInv DEF AppPlace
<1>6. CASE ForceDrop(App)
  <2>1. /\ at[App] = "drop" /\ Goes(App, "close") /\ keep' = (keep /\ ~thread)
        /\ UNCHANGED <<sock, thread, call, answer, fd, opened, mine, peer, arrived, history>>
    BY <1>6 DEF ForceDrop, Moves, linkVars, objectVars
  <2>2. call # "Destroy" /\ (call = "Connect" => ~answer)
    BY <1>0, <2>1 DEF Threads, Says, Ending
  <2> QED
    BY <1>1, <2>1, <2>2, AppStillInv DEF AppPlace
<1> QED
  BY <1>2, <1>3, <1>4, <1>5, <1>6

LEMMA DisconnectQuietInv ==
  ASSUME IndInv,
         \/ DisconnectNothing \/ DisconnectUnread \/ DisconnectWait
         \/ DisconnectTimeout \/ DisconnectStray
  PROVE  IndInv'
<1>0. Fields /\ Threads /\ Alone /\ Says
  BY Typed DEF IndInv
<1>1. /\ keep \in BOOLEAN /\ answer \in BOOLEAN /\ call \in Calls /\ thread \in BOOLEAN
  BY <1>0 DEF Fields
<1>n. at[App] \in {"stop", "exitwait"} => (call = "Connect" => ~answer)
  BY <1>0 DEF Says, Ending
<1>2. CASE DisconnectNothing \/ DisconnectTimeout
  <2>1. /\ at[App] \in {"stop", "exitwait"} /\ Goes(App, "return") /\ answer' = FALSE
        /\ UNCHANGED <<sock, keep, thread, call, fd, opened, mine, peer, arrived, history>>
    BY <1>2 DEF DisconnectNothing, DisconnectTimeout, Ends, linkVars, objectVars
  <2> QED
    BY <1>1, <2>1, AppStillInv DEF AppPlace
<1>3. CASE DisconnectUnread
  <2>1. /\ at[App] = "stop" /\ ~thread /\ Goes(App, "close")
        /\ UNCHANGED <<sock, keep, thread, call, answer, fd, opened, mine, peer, arrived, history>>
    BY <1>3 DEF DisconnectUnread, linkVars, objectVars
  <2>2. ~history.crowded => Receivers = {}
    BY <1>0, <2>1 DEF Alone
  <2> QED
    BY <1>1, <1>n, <2>1, <2>2, AppStillInv DEF AppPlace
<1>4. CASE DisconnectWait
  <2>1. /\ at[App] = "stop"
        /\ \/ Goes(App, "exitwait") /\ keep' = FALSE /\ answer' = answer
           \/ Goes(App, "return") /\ answer' = FALSE /\ keep' = keep
        /\ UNCHANGED <<sock, thread, call, fd, opened, mine, peer, arrived, history>>
    BY <1>4 DEF DisconnectWait, Ends, linkVars
  <2>2. CASE Goes(App, "exitwait") /\ keep' = FALSE /\ answer' = answer
    <3>1. call' = "Connect" => ~answer'
      BY <1>n, <2>1, <2>2
    <3> QED
      BY <1>1, <2>1, <2>2, <3>1, AppStillInv DEF AppPlace
  <2>3. CASE Goes(App, "return") /\ answer' = FALSE /\ keep' = keep
    BY <1>1, <2>1, <2>3, AppStillInv DEF AppPlace
  <2> QED
    BY <2>1, <2>2, <2>3
<1>5. CASE DisconnectStray
  <2>1. /\ at[App] = "exitwait" /\ Goes(App, "close")
        /\ history' = [history EXCEPT !.stray = TRUE]
        /\ UNCHANGED <<sock, keep, thread, call, answer, fd, opened, mine, peer, arrived>>
    BY <1>5 DEF DisconnectStray, Moves, linkVars, objectVars
  <2>2. /\ history' \in HistoryRecord /\ ~history'.heard /\ history'.stray
        /\ history'.sent = history.sent /\ history'.crowded = history.crowded
    BY <1>0, <2>1 DEF Fields, Says, HistoryRecord
  <2> QED
    BY <1>1, <1>n, <2>1, <2>2, AppMoveInv DEF AppPlace
<1> QED
  BY <1>2, <1>3, <1>4, <1>5

LEMMA ConnectQuietInv ==
  ASSUME IndInv,
         \/ ConnectClock \/ ConnectTimeout \/ ConnectStray \/ ConnectWoken
         \/ ConnectSocket /\ Ends(FALSE) /\ UNCHANGED <<opened, sock, mine, history>>
         \/ Dial /\ answer' = FALSE /\ Goes(App, "close") /\ UNCHANGED <<mine, peer>>
  PROVE  IndInv'
<1>0. Fields /\ Threads /\ Alone /\ Says
  BY Typed DEF IndInv
<1>1. /\ keep \in BOOLEAN /\ answer \in BOOLEAN /\ call \in Calls /\ thread \in BOOLEAN
      /\ history \in HistoryRecord
  BY <1>0 DEF Fields
<1>n. at[App] \in {"socket", "dial", "clock", "wait", "woken"} => call # "Destroy"
  BY <1>0 DEF Threads
<1>2. CASE ConnectClock
  <2>1. /\ at[App] = "clock"
        /\ \/ Goes(App, "wait") /\ answer' = answer
           \/ Goes(App, "force") /\ answer' = FALSE
        /\ UNCHANGED <<sock, keep, thread, call, fd, opened, mine, peer, arrived, history>>
    BY <1>2 DEF ConnectClock, linkVars, objectVars
  <2> QED
    BY <1>1, <1>n, <2>1, AppStillInv DEF AppPlace, Ending
<1>3. CASE ConnectTimeout
  <2>1. /\ at[App] = "wait" /\ Goes(App, "force") /\ answer' = FALSE
        /\ UNCHANGED <<sock, keep, thread, call, fd, opened, mine, peer, arrived, history>>
    BY <1>3 DEF ConnectTimeout, Moves, objectVars, linkVars
  <2> QED
    BY <1>1, <1>n, <2>1, AppStillInv DEF AppPlace
<1>4. CASE ConnectStray
  <2>1. /\ at[App] = "wait" /\ Goes(App, "woken")
        /\ history' = [history EXCEPT !.stray = TRUE]
        /\ UNCHANGED <<sock, keep, thread, call, answer, fd, opened, mine, peer, arrived>>
    BY <1>4 DEF ConnectStray, Moves, objectVars, linkVars
  <2>2. /\ history' \in HistoryRecord /\ ~history'.heard /\ history'.stray
        /\ history'.sent = history.sent /\ history'.crowded = history.crowded
    BY <1>0, <2>1 DEF Fields, Says, HistoryRecord
  <2> QED
    BY <1>1, <1>n, <2>1, <2>2, AppMoveInv DEF AppPlace, Ending
<1>5. CASE ConnectWoken
  <2>1. /\ at[App] = "woken" /\ Goes(App, "return") /\ answer' = TRUE
        /\ UNCHANGED <<sock, keep, thread, call, fd, opened, mine, peer, arrived, history>>
    BY <1>5 DEF ConnectWoken, Ends, objectVars, linkVars
  <2>2. history.sent \/ history.stray \/ history.crowded
    BY <1>0, <2>1 DEF Says
  <2> QED
    BY <1>1, <1>n, <2>1, <2>2, AppMoveInv DEF AppPlace, Ending
<1>6. CASE ConnectSocket /\ Ends(FALSE) /\ UNCHANGED <<opened, sock, mine, history>>
  <2>1. /\ at[App] = "socket" /\ Goes(App, "return") /\ answer' = FALSE
        /\ UNCHANGED <<sock, keep, thread, call, fd, opened, mine, peer, arrived, history>>
    BY <1>6 DEF ConnectSocket, Ends
  <2> QED
    BY <1>1, <2>1, AppStillInv DEF AppPlace
<1>7. CASE Dial /\ answer' = FALSE /\ Goes(App, "close") /\ UNCHANGED <<mine, peer>>
  <2>1. /\ at[App] = "dial"
        /\ UNCHANGED <<sock, keep, thread, call, fd, opened, mine, peer, arrived, history>>
    BY <1>7 DEF Dial, objectVars
  <2> QED
    BY <1>1, <1>7, <2>1, AppStillInv DEF AppPlace
<1> QED
  BY <1>2, <1>3, <1>4, <1>5, <1>6, <1>7

(* Connect begins: refused above, here with no socket. *)
LEMMA ConnectBeginInv ==
  ASSUME IndInv, ConnectBegin, sock = 0
  PROVE  IndInv'
<1> USE DEF Conn, Thread, App
<1>0. Fields /\ Threads /\ Links /\ Alone /\ Says /\ NoSocketLeft
  BY Typed DEF IndInv
<1>1. /\ at[App] = "idle" /\ Goes(App, "socket") /\ keep' = TRUE /\ call' = "Connect"
      /\ UNCHANGED <<sock, thread, answer, fd, opened, mine, peer, arrived>>
      /\ opened < MaxConns
      /\ \E b \in BOOLEAN : /\ b = (history.crowded \/ Receivers # {})
                           /\ history' = [history EXCEPT !.crowded = b]
  <2>1. (history.crowded \/ Receivers # {}) \in BOOLEAN
    OBVIOUS
  <2> QED
    BY <2>1 DEF ConnectBegin, Ends, linkVars
<1>2. PICK b \in BOOLEAN : /\ b = (history.crowded \/ Receivers # {})
                           /\ history' = [history EXCEPT !.crowded = b]
  BY <1>1
<1>3. history \in HistoryRecord
  BY <1>0 DEF Fields
<1>4. history' \in HistoryRecord
  BY <1>2, <1>3 DEF HistoryRecord
<1>5. /\ history'.sent = history.sent /\ history'.heard = history.heard
      /\ history'.crowded = b /\ history'.stray = history.stray
  BY <1>2, <1>3 DEF HistoryRecord
<1>6. /\ at' \in [Thread -> AppPlace \cup ReceiverPlace]
      /\ at'[App] = "socket" /\ \A u \in Thread \ {App} : at'[u] = at[u]
  BY <1>0, <1>1, Moved DEF AppPlace
<1>7. Receivers' = Receivers
  BY <1>6 DEF Receivers
<1>8. Threads'
  BY <1>1, <1>6 DEF Threads
<1>9. Fields'
  BY <1>0, <1>1, <1>4, <1>6 DEF Fields, AppPlace, Calls
<1>10. Links'
  BY <1>0, <1>1, <1>5, <1>6 DEF Links
<1>11. Alone'
  <2> SUFFICES ASSUME ~b PROVE Alone'
    BY <1>5 DEF Alone
  <2>1. Receivers = {} /\ ~history.crowded
    BY <1>2
  <2>2. \A t \in Thread : at'[t] \notin {"announce", "forget"}
    BY <1>6, <2>1 DEF Receivers
  <2> QED
    BY <1>1, <1>6, <1>7, <2>1, <2>2 DEF Alone
<1>12. Says' /\ NoSocketLeft'
  BY <1>0, <1>1, <1>2, <1>5, <1>6 DEF Says, Ending, NoSocketLeft
<1> QED
  BY <1>8, <1>9, <1>10, <1>11, <1>12, Typed DEF IndInv

(* The new socket is a new connection, and the only one not shut. *)
LEMMA ConnectSocketInv ==
  ASSUME IndInv, ConnectSocket, opened' = opened + 1, sock' = opened',
         mine' = [mine EXCEPT ![opened'] = "dialing"], Goes(App, "dial"), UNCHANGED answer,
         history' = [history EXCEPT !.sent = FALSE]
  PROVE  IndInv'
<1> USE DEF Conn, Thread, App
<1>0. Fields /\ Threads /\ Links /\ Alone /\ Says /\ NoSocketLeft
  BY Typed DEF IndInv
<1>1. /\ at[App] = "socket" 
      /\ UNCHANGED <<keep, thread, call, fd, peer, arrived>>
  BY DEF ConnectSocket
<1>2. sock = 0 /\ opened < MaxConns /\ opened \in 0..MaxConns /\ opened + 1 \in Conn
      /\ mine \in [Conn -> {"none", "dialing", "open", "shut"}]
      /\ history \in HistoryRecord /\ call # "Destroy"
  <2>1. sock = 0 /\ opened < MaxConns /\ call # "Destroy"
    BY <1>0, <1>1 DEF Threads
  <2>2. /\ opened \in 0..MaxConns /\ history \in HistoryRecord
        /\ mine \in [Conn -> {"none", "dialing", "open", "shut"}]
    BY <1>0 DEF Fields
  <2>3. opened + 1 \in Conn
    BY <2>1, <2>2, ConnectionAssumption
  <2> QED
    BY <2>1, <2>2, <2>3
<1>h. /\ history' \in HistoryRecord /\ history'.heard = history.heard
      /\ history'.crowded = history.crowded /\ history'.stray = history.stray
  BY <1>2 DEF HistoryRecord
<1>3. /\ at' \in [Thread -> AppPlace \cup ReceiverPlace]
      /\ at'[App] = "dial" /\ \A u \in Thread \ {App} : at'[u] = at[u]
  BY <1>0, Moved DEF AppPlace
<1>4. Receivers' = Receivers
  BY <1>3 DEF Receivers
<1>5. Threads'
  BY <1>1, <1>2, <1>3 DEF Threads
<1>6. opened' \in 0..MaxConns /\ mine' \in [Conn -> {"none", "dialing", "open", "shut"}]
  BY <1>2
<1>7. Fields'
  BY <1>0, <1>1, <1>h, <1>3, <1>6 DEF Fields, AppPlace
<1>8. Links'
  <2>1. ~arrived[opened + 1]
    BY <1>0, <1>2 DEF Links
  <2>2. \A c \in Conn : c > opened + 1 => c > opened
    BY <1>2
  <2> QED
    BY <1>0, <1>1, <2>1, <2>2 DEF Links
<1>9. Alone'
  <2> SUFFICES ASSUME ~history.crowded PROVE Alone'
    BY <1>h DEF Alone
  <2>1. Receivers = {}
    BY <1>0, <1>1 DEF Alone
  <2>2. \A t \in Thread : at'[t] \notin {"announce", "forget"}
    BY <1>3, <2>1 DEF Receivers
  <2> QED
    BY <1>1, <1>2, <1>3, <1>4, <2>1, <2>2 DEF Alone
<1>10. NoSocketLeft'
  <2>1. \A c \in Conn : c # 0 /\ (c # opened + 1 => mine'[c] = mine[c])
    BY <1>2
  <2> QED
    BY <1>0, <1>h, <1>1, <1>2, <2>1 DEF NoSocketLeft
<1>11. Says'
  BY <1>0, <1>1, <1>2, <1>3, <1>h DEF Says, Ending
<1> QED
  BY <1>5, <1>7, <1>8, <1>9, <1>10, <1>11, Typed DEF IndInv

LEMMA DialInv ==
  ASSUME IndInv, Dial, sock # 0, mine[sock] = "dialing",
         mine' = [mine EXCEPT ![sock] = "open"], peer' = [peer EXCEPT ![sock] = "accepted"],
         Goes(App, "create"), UNCHANGED answer
  PROVE  IndInv'
<1> USE DEF Conn, Thread, App
<1>0. Fields /\ Threads /\ Links /\ Alone /\ Says /\ NoSocketLeft
  BY Typed DEF IndInv
<1>1. /\ at[App] = "dial" 
      /\ UNCHANGED <<sock, keep, thread, call, fd, opened, arrived, history>>
  BY DEF Dial, objectVars
<1>2. /\ sock \in Conn /\ mine \in [Conn -> {"none", "dialing", "open", "shut"}]
      /\ peer \in [Conn -> {"none", "accepted", "running", "closed", "leaked"}]
  BY <1>0 DEF Fields
<1>3. /\ at' \in [Thread -> AppPlace \cup ReceiverPlace]
      /\ at'[App] = "create" /\ \A u \in Thread \ {App} : at'[u] = at[u]
  BY <1>0, Moved DEF AppPlace
<1>4. Receivers' = Receivers
  BY <1>3 DEF Receivers
<1>5. Threads'
  BY <1>0, <1>1, <1>3 DEF Threads
<1>6. /\ mine' \in [Conn -> {"none", "dialing", "open", "shut"}]
      /\ peer' \in [Conn -> {"none", "accepted", "running", "closed", "leaked"}]
      /\ \A c \in Conn : c # sock => mine'[c] = mine[c]
  BY <1>2
<1>7. Fields'
  BY <1>0, <1>1, <1>3, <1>6 DEF Fields, AppPlace
<1>8. Links'
  <2>1. sock = opened /\ \A c \in Conn : c > opened => peer'[c] = peer[c]
    BY <1>0, <1>2 DEF Links
  <2> QED
    BY <1>0, <1>1, <2>1 DEF Links
<1>9. Alone'
  <2> SUFFICES ASSUME ~history.crowded PROVE Alone'
    BY <1>1 DEF Alone
  <2>1. Receivers = {}
    BY <1>0, <1>1 DEF Alone
  <2>2. \A t \in Thread : at'[t] \notin {"announce", "forget"}
    BY <1>3, <2>1 DEF Receivers
  <2> QED
    BY <1>3, <1>4, <2>1, <2>2 DEF Alone
<1>10. NoSocketLeft'
  BY <1>0, <1>1, <1>6 DEF NoSocketLeft
<1>11. Says'
  BY <1>0, <1>1, <1>3 DEF Says, Ending
<1> QED
  BY <1>5, <1>7, <1>8, <1>9, <1>10, <1>11, Typed DEF IndInv

(* The receiving thread of the new connection is the only one. *)
LEMMA CreateReceiverInv ==
  ASSUME IndInv, CreateReceiver
  PROVE  IndInv'
<1> USE DEF Conn, Thread, App
<1>0. Fields /\ Threads /\ Links /\ Alone /\ Says /\ NoSocketLeft
  BY Typed DEF IndInv
<1>1. /\ at[App] = "create" /\ answer' = FALSE
      /\ UNCHANGED <<sock, keep, call, fd, opened, mine, peer, arrived, history>>
  BY DEF CreateReceiver, linkVars
<1>2. opened \in Conn /\ call # "Destroy" /\ (~history.crowded => Receivers = {})
  BY <1>0, <1>1 DEF Threads, Fields, Alone
<1>3. PICK here \in {"clock", "stop"} :
         /\ here = "clock" => /\ at' = [at EXCEPT ![App] = "clock", ![opened] = "look"]
                              /\ thread' = TRUE
         /\ here = "stop" => Goes(App, "stop") /\ thread' = FALSE
  BY DEF CreateReceiver
<1>4. /\ at' \in [Thread -> AppPlace \cup ReceiverPlace]
      /\ at'[App] = here
      /\ here = "clock" => at'[opened] = "look"
      /\ \A c \in Conn : at'[c] = at[c] \/ (here = "clock" /\ c = opened)
  <2>1. at \in [Thread -> AppPlace \cup ReceiverPlace] /\ App # opened
    BY <1>0, <1>2 DEF Threads
  <2> QED
    BY <1>2, <1>3, <2>1 DEF Goes, AppPlace, ReceiverPlace
<1>5. Receivers' \subseteq Receivers \cup (IF here = "clock" THEN {opened} ELSE {})
  BY <1>4 DEF Receivers
<1>6. Threads'
  BY <1>0, <1>1, <1>2, <1>4 DEF Threads
<1>7. Fields'
  <2>1. at'[App] \in AppPlace /\ thread' \in BOOLEAN
    BY <1>3, <1>4 DEF AppPlace
  <2>2. \A c \in Conn : at'[c] \in ReceiverPlace
    BY <1>0, <1>4 DEF Fields, ReceiverPlace
  <2> QED
    BY <1>0, <1>1, <2>1, <2>2 DEF Fields
<1>8. Links'
  BY <1>0, <1>1, <1>4 DEF Links
<1>9. Alone'
  <2> SUFFICES ASSUME ~history.crowded PROVE Alone'
    BY <1>1 DEF Alone
  <2>1. Receivers' \subseteq (IF here = "clock" THEN {opened} ELSE {})
    BY <1>2, <1>5
  <2>2. \A t \in Thread : at'[t] \notin {"announce", "forget"}
    BY <1>2, <1>4 DEF Receivers
  <2> QED
    BY <1>1, <1>2, <1>3, <1>4, <2>1, <2>2 DEF Alone
<1>10. Says' /\ NoSocketLeft'
  BY <1>0, <1>1, <1>2, <1>4 DEF Says, Ending, NoSocketLeft
<1> QED
  BY <1>6, <1>7, <1>8, <1>9, <1>10, Typed DEF IndInv

(* Whoever closes has shut the socket it is about to forget. *)
LEMMA CloseInv ==
  ASSUME IndInv, NEW t \in Thread, Close(t)
  PROVE  IndInv'
<1> USE DEF Conn, Thread, App
<1>0. Fields /\ Threads /\ Links /\ Alone /\ Says /\ NoSocketLeft
  BY Typed DEF IndInv
<1>1. /\ at[t] = "close" /\ Goes(t, "forget")
      /\ UNCHANGED <<sock, keep, thread, call, answer, fd, opened, peer, arrived, history>>
      /\ mine' = [c \in Conn |-> IF c = sock THEN "shut" ELSE mine[c]]
  BY DEF Close, Moves, objectVars
<1>2. /\ at' \in [Thread -> AppPlace \cup ReceiverPlace]
      /\ at'[t] = "forget" /\ \A u \in Thread \ {t} : at'[u] = at[u]
  BY <1>0, <1>1, Moved DEF AppPlace
<1>3. at'[App] = at[App] \/ (at[App] = "close" /\ at'[App] = "forget")
  BY <1>1, <1>2
<1>4. Receivers' = Receivers
  BY <1>1, <1>2 DEF Receivers
<1>5. Threads'
  BY <1>0, <1>1, <1>2, <1>3 DEF Threads
<1>6. /\ mine' \in [Conn -> {"none", "dialing", "open", "shut"}]
      /\ \A c \in Conn : mine'[c] = (IF c = sock THEN "shut" ELSE mine[c])
  <2>1. mine \in [Conn -> {"none", "dialing", "open", "shut"}]
    BY <1>0 DEF Fields
  <2> QED
    BY <1>1, <2>1
<1>7. Fields'
  <2>1. at'[App] \in AppPlace /\ \A c \in Conn : at'[c] \in ReceiverPlace
    BY <1>0, <1>2 DEF Fields, AppPlace, ReceiverPlace
  <2> QED
    BY <1>0, <1>1, <1>6, <2>1 DEF Fields
<1>8. Links'
  BY <1>0, <1>1, <1>3 DEF Links
<1>9. sock = 0 \/ mine'[sock] = "shut"
  BY <1>0, <1>6 DEF Fields
<1>10. \A c \in Conn : at'[c] = "announce" => at[c] = "announce"
  BY <1>2
<1>11. Alone'
  BY <1>0, <1>1, <1>3, <1>4, <1>9, <1>10 DEF Alone
<1>12. Says' /\ NoSocketLeft'
  BY <1>0, <1>1, <1>3, <1>4, <1>6 DEF Says, Ending, NoSocketLeft
<1> QED
  BY <1>5, <1>7, <1>8, <1>11, <1>12, Typed DEF IndInv

(* What is forgotten was shut before. *)
LEMMA ForgetInv ==
  ASSUME IndInv, NEW t \in Thread, Forget(t)
  PROVE  IndInv'
<1> USE DEF Conn, Thread, App
<1>0. Fields /\ Threads /\ Links /\ Alone /\ Says /\ NoSocketLeft
  BY Typed DEF IndInv
<1>1. PICK place \in {"return", "exit"} :
      /\ at[t] = "forget" /\ Goes(t, place) /\ sock' = 0
      /\ place = (IF t = App THEN "return" ELSE "exit")
      /\ UNCHANGED <<keep, thread, call, answer, fd, opened, mine, peer, arrived, history>>
  BY DEF Forget, Closed, linkVars
<1>2. /\ at' \in [Thread -> AppPlace \cup ReceiverPlace]
      /\ at'[t] = place /\ \A u \in Thread \ {t} : at'[u] = at[u]
  BY <1>0, <1>1, Moved DEF AppPlace, ReceiverPlace
<1>3. at'[App] = at[App] \/ (at[App] = "forget" /\ at'[App] = "return")
  BY <1>1, <1>2
<1>4. Receivers' = Receivers
  BY <1>1, <1>2 DEF Receivers
<1>5. Threads'
  BY <1>0, <1>1, <1>2, <1>3 DEF Threads
<1>6. Fields'
  <2>1. at'[App] \in AppPlace /\ \A c \in Conn : at'[c] \in ReceiverPlace
    BY <1>0, <1>1, <1>2 DEF Fields, AppPlace, ReceiverPlace
  <2>2. sock' \in 0..MaxConns
    BY <1>1, ConnectionAssumption
  <2> QED
    BY <1>0, <1>1, <2>1, <2>2 DEF Fields
<1>7. Links'
  BY <1>0, <1>1, <1>3 DEF Links
<1>8. \A c \in Conn : at'[c] = "announce" => at[c] = "announce"
  BY <1>1, <1>2
<1>9. Alone'
  BY <1>0, <1>1, <1>3, <1>4, <1>8 DEF Alone
<1>10. NoSocketLeft'
  BY <1>0, <1>1 DEF Alone, NoSocketLeft
<1>11. Says'
  BY <1>0, <1>1, <1>3, <1>4 DEF Says, Ending
<1> QED
  BY <1>5, <1>6, <1>7, <1>9, <1>10, <1>11, Typed DEF IndInv

(* An announcement wakes a Connect that waits, whose instance has answered. *)
LEMMA AnnounceInv ==
  ASSUME IndInv, NEW r \in Conn, Announce(r)
  PROVE  IndInv'
<1> USE DEF Conn, Thread, App
<1>0. Fields /\ Threads /\ Links /\ Alone /\ Says /\ NoSocketLeft /\ r # App
  BY Typed DEF IndInv
<1>1. /\ at[r] = "announce" /\ at[App] \notin {"create", "clock"}
      /\ at' = [at EXCEPT ![r] = "look", ![App] = IF @ = "wait" THEN "woken" ELSE @]
      /\ UNCHANGED <<sock, keep, thread, call, answer, fd, opened, mine, peer, arrived>>
  BY DEF Announce, Locked, objectVars, linkVars
<1>2. /\ at' \in [Thread -> AppPlace \cup ReceiverPlace]
      /\ at'[r] = "look" /\ at'[App] = (IF at[App] = "wait" THEN "woken" ELSE at[App])
      /\ \A c \in Conn \ {r} : at'[c] = at[c]
  BY <1>0, <1>1 DEF Threads, AppPlace, ReceiverPlace
<1>3. Receivers' = Receivers
  BY <1>1, <1>2 DEF Receivers
<1>4. /\ history' \in HistoryRecord /\ history'.sent = history.sent
      /\ history'.crowded = history.crowded /\ history'.stray = history.stray
      /\ history'.heard => history.heard \/ at[App] = "wait"
  <2>1. history \in HistoryRecord
    BY <1>0 DEF Fields
  <2>2. CASE r = opened /\ at[App] \in {"clock", "wait"}
    <3>1. history' = [history EXCEPT !.heard = TRUE]
      BY <2>2 DEF Announce
    <3> QED
      BY <1>1, <2>1, <2>2, <3>1 DEF HistoryRecord
  <2>3. CASE ~(r = opened /\ at[App] \in {"clock", "wait"})
    <3>1. history' = history
      BY <2>3 DEF Announce
    <3> QED
      BY <2>1, <3>1
  <2> QED
    BY <2>2, <2>3
<1>5. Threads'
  BY <1>0, <1>1, <1>2 DEF Threads
<1>6. Fields'
  <2>1. at'[App] \in AppPlace /\ \A c \in Conn : at'[c] \in ReceiverPlace
    BY <1>0, <1>2 DEF Fields, AppPlace, ReceiverPlace
  <2> QED
    BY <1>0, <1>1, <1>4, <2>1 DEF Fields
<1>7. Links' /\ NoSocketLeft'
  BY <1>0, <1>1, <1>4 DEF Links, NoSocketLeft
<1>8. Alone'
  <2>1. \A u \in Thread : at'[u] \in {"announce", "forget"} => at[u] = at'[u]
    BY <1>2
  <2> QED
    BY <1>0, <1>1, <1>2, <1>3, <1>4, <2>1 DEF Alone
<1>9. Says'
  <2>1. ~history.crowded => history.sent
    BY <1>0, <1>1 DEF Alone
  <2> QED
    BY <1>0, <1>1, <1>2, <1>3, <1>4, <2>1 DEF Says, Ending
<1> QED
  BY <1>5, <1>6, <1>7, <1>8, <1>9, Typed DEF IndInv

(* The thread whose end a Disconnect waits for was the only one. *)
LEMMA ExitInv ==
  ASSUME IndInv, NEW r \in Conn, Exit(r)
  PROVE  IndInv'
<1> USE DEF Conn, Thread, App
<1>0. Fields /\ Threads /\ Links /\ Alone /\ Says /\ NoSocketLeft /\ r # App
  BY Typed DEF IndInv
<1>1. /\ at[r] = "exit"
      /\ at' = [at EXCEPT ![r] = "gone", ![App] = IF @ = "exitwait" THEN "close" ELSE @]
      /\ UNCHANGED <<sock, keep, thread, call, answer, fd, opened, mine, peer, arrived,
                     history>>
  BY DEF Exit, objectVars, linkVars
<1>2. /\ at' \in [Thread -> AppPlace \cup ReceiverPlace]
      /\ at'[r] = "gone" /\ at'[App] = (IF at[App] = "exitwait" THEN "close" ELSE at[App])
      /\ \A c \in Conn \ {r} : at'[c] = at[c]
  BY <1>0, <1>1 DEF Threads, AppPlace, ReceiverPlace
<1>3. r \in Receivers /\ Receivers' = Receivers \ {r}
  BY <1>1, <1>2 DEF Receivers
<1>4. ~history.crowded => Receivers' = {}
  BY <1>0, <1>3 DEF Alone
<1>5. Threads'
  BY <1>0, <1>1, <1>2 DEF Threads
<1>6. Fields'
  <2>1. at'[App] \in AppPlace /\ \A c \in Conn : at'[c] \in ReceiverPlace
    BY <1>0, <1>2 DEF Fields, AppPlace, ReceiverPlace
  <2> QED
    BY <1>0, <1>1, <2>1 DEF Fields
<1>7. Links'
  BY <1>0, <1>1, <1>2 DEF Links
<1>8. Alone'
  <2>1. \A u \in Thread : at'[u] \in {"announce", "forget"} => at[u] = at'[u]
    BY <1>2
  <2> QED
    BY <1>0, <1>1, <1>4, <2>1 DEF Alone
<1>9. Says' /\ NoSocketLeft'
  BY <1>0, <1>1, <1>2, <1>4 DEF Says, Ending, NoSocketLeft
<1> QED
  BY <1>5, <1>6, <1>7, <1>8, <1>9, Typed DEF IndInv

(* MSG_CONNECT arrives only when an instance has sent it. *)
LEMMA PeerInv ==
  ASSUME IndInv, NEW c \in Conn, PeerStep(c)
  PROVE  IndInv'
<1> USE DEF Conn, Thread, App
<1>0. Fields /\ Threads /\ Links /\ Alone /\ Says /\ NoSocketLeft
  BY Typed DEF IndInv
<1>1. UNCHANGED <<sock, keep, thread, at, call, answer, fd, opened, mine>>
  BY DEF PeerStep, objectVars
<1>2. PICK p \in {"closed", "leaked", "running"} : peer' = [peer EXCEPT ![c] = p]
  BY DEF PeerStep, InstanceBegins, InstanceEnds, SetSocketFails, Becomes
<1>a. peer[c] # "none"
  BY DEF PeerStep, InstanceBegins, InstanceEnds, SetSocketFails, Becomes
<1>3. \/ arrived' = arrived /\ history' = history
      \/ /\ arrived' = [arrived EXCEPT ![c] = TRUE]
         /\ history' = [history EXCEPT !.sent = @ \/ c = opened]
  BY DEF PeerStep, InstanceBegins, InstanceEnds, SimpleSend
<1>4. history \in HistoryRecord /\ arrived \in [Conn -> BOOLEAN]
      /\ peer \in [Conn -> {"none", "accepted", "running", "closed", "leaked"}]
  BY <1>0 DEF Fields
<1>5. /\ history' \in HistoryRecord /\ (history.sent => history'.sent)
      /\ history'.heard = history.heard /\ history'.crowded = history.crowded
      /\ history'.stray = history.stray
      /\ arrived' \in [Conn -> BOOLEAN]
      /\ \A d \in Conn : arrived'[d] => arrived[d] \/ d = c
      /\ arrived'[c] => arrived[c] \/ (c = opened => history'.sent)
  <2>1. CASE arrived' = arrived /\ history' = history
    BY <1>4, <2>1
  <2>2. CASE /\ arrived' = [arrived EXCEPT ![c] = TRUE]
             /\ history' = [history EXCEPT !.sent = @ \/ c = opened]
    <3>1. PICK b \in BOOLEAN : b = (history.sent \/ c = opened)
      OBVIOUS
    <3>2. history' = [history EXCEPT !.sent = b]
      BY <2>2, <3>1
    <3> QED
      BY <1>4, <2>2, <3>1, <3>2 DEF HistoryRecord
  <2> QED
    BY <1>3, <2>1, <2>2
<1>6. peer' \in [Conn -> {"none", "accepted", "running", "closed", "leaked"}]
  BY <1>2, <1>4
<1>7. Fields'
  BY <1>0, <1>1, <1>5, <1>6 DEF Fields
<1>8. Threads' /\ Receivers' = Receivers
  BY <1>0, <1>1 DEF Threads, Receivers
<1>l. Links'
  <2>1. ~(c > opened)
    BY <1>0, <1>a DEF Links
  <2>2. \A d \in Conn : d # c => peer'[d] = peer[d]
    BY <1>2, <1>4
  <2> QED
    BY <1>0, <1>1, <1>5, <2>1, <2>2 DEF Links, Fields
<1>9. Alone'
  BY <1>0, <1>1, <1>5, <1>8 DEF Alone
<1>10. Says' /\ NoSocketLeft'
  BY <1>0, <1>1, <1>5, <1>8 DEF Says, NoSocketLeft
<1> QED
  BY <1>7, <1>8, <1>l, <1>9, <1>10, Typed DEF IndInv

(* The application's steps in Connect, each of two or more outcomes. *)
LEMMA ConnectInv ==
  ASSUME IndInv,
         \/ ConnectBegin \/ ConnectSocket \/ Dial \/ ConnectClock
         \/ ConnectTimeout \/ ConnectStray \/ ConnectWoken
  PROVE  IndInv'
<1>1. CASE ConnectBegin
  BY <1>1, ConnectBeginInv, CallQuietInv
<1>2. CASE ConnectSocket
  <2>1. \/ /\ opened' = opened + 1 /\ sock' = opened'
           /\ mine' = [mine EXCEPT ![opened'] = "dialing"]
           /\ history' = [history EXCEPT !.sent = FALSE]
           /\ Goes(App, "dial") /\ UNCHANGED answer
        \/ Ends(FALSE) /\ UNCHANGED <<opened, sock, mine, history>>
    BY <1>2 DEF ConnectSocket
  <2> QED
    BY <1>2, <2>1, ConnectSocketInv, ConnectQuietInv
<1>3. CASE Dial
  <2>1. \/ /\ sock # 0 /\ mine[sock] = "dialing"
           /\ mine' = [mine EXCEPT ![sock] = "open"]
           /\ peer' = [peer EXCEPT ![sock] = "accepted"]
           /\ Goes(App, "create") /\ UNCHANGED answer
        \/ answer' = FALSE /\ Goes(App, "close") /\ UNCHANGED <<mine, peer>>
    BY <1>3 DEF Dial
  <2> QED
    BY <1>3, <2>1, DialInv, ConnectQuietInv
<1> QED
  BY <1>1, <1>2, <1>3, ConnectQuietInv

LEMMA NextIndInv == IndInv /\ [Next]_vars => IndInv'
<1> SUFFICES ASSUME IndInv, [Next]_vars PROVE IndInv'
  OBVIOUS
<1>0. App \in Thread /\ Conn \subseteq Thread
  BY DEF Thread
<1>1. CASE ConnectBegin \/ CallBegin
  BY <1>1, ConnectInv, CallQuietInv
<1>2. CASE AppStep
  BY <1>0, <1>2, ConnectInv, CreateReceiverInv, DisconnectQuietInv, CallQuietInv,
     CloseInv, ForgetInv DEF AppStep
<1>3. CASE \E c \in Conn : ReceiverStep(c)
  BY <1>0, <1>3, ReceiverQuietInv, AnnounceInv, ExitInv, CloseInv, ForgetInv
     DEF ReceiverStep
<1>4. CASE \E c \in Conn : PeerStep(c)
  BY <1>4, PeerInv
<1>5. CASE UNCHANGED vars
  <2>1. UNCHANGED <<sock, keep, thread, at, call, answer, fd, opened, mine, peer, arrived,
                    history>>
    BY <1>5 DEF vars, objectVars, linkVars
  <2> QED
    BY <2>1 DEF IndInv, TypeOK, Threads, Links, Alone, Says, Receivers, NoSocketLeft
<1> QED
  BY <1>1, <1>2, <1>3, <1>4, <1>5 DEF Next

LEMMA SpecIndInv == Spec => []IndInv
BY InitIndInv, NextIndInv, PTL DEF Spec

(* The application and the receiving threads are where their code is, and   *)
(* every variable has its type.                                             *)
THEOREM TypeCorrect == Spec => []TypeOK
<1>1. IndInv => TypeOK
  BY DEF IndInv
<1> QED
  BY <1>1, SpecIndInv, PTL

(* Connect answers true only for a connection whose server sent             *)
(* MSG_CONNECT, unless it began over an older receiving thread or its wait  *)
(* woke by itself.                                                          *)
THEOREM TrueIsAnAnswer == Spec => []TrueMeansAnswered
<1>1. IndInv => TrueMeansAnswered
  BY DEF IndInv, Says, TrueMeansAnswered
<1> QED
  BY <1>1, SpecIndInv, PTL

(* The answer announced before Connect gave up ends its wait, though the    *)
(* receiving thread may run before the wait begins: pthread_create and the  *)
(* beginning of the wait are one critical section of _cond_connect_obj.     *)
THEOREM NoLostWakeup == Spec => []AnswerIsNotMissed
<1>1. IndInv => AnswerIsNotMissed
  BY DEF IndInv, Says, AnswerIsNotMissed
<1> QED
  BY <1>1, SpecIndInv, PTL

(* No descriptor stays open that _socket does not name, however the closing *)
(* of the application and of the receiving thread overlap.                  *)
THEOREM EverySocketClosed == Spec => []NoSocketLeft
<1>1. IndInv => NoSocketLeft
  BY DEF IndInv
<1> QED
  BY <1>1, SpecIndInv, PTL

(* A destructor whose Disconnect answered true leaves no receiving thread,  *)
(* unless its wait woke by itself.                                          *)
THEOREM DestroyedIsQuiet == Spec => []DestroyedMeansQuiet
<1>1. IndInv => DestroyedMeansQuiet
  BY DEF IndInv, Says, DestroyedMeansQuiet
<1> QED
  BY <1>1, SpecIndInv, PTL
=============================================================================

----------------------------- MODULE Connection ------------------------------
(* How a connection of ClientBase (clientbase/clientbase.cpp) begins and    *)
(* ends: Connect and its wait for the server's MSG_CONNECT, Disconnect,     *)
(* DisconnectForcibly and the destructor on one thread of the application,  *)
(* the receiving threads that successive connections leave behind, and the  *)
(* server instance of each connection (CreatCommonServerInstance,           *)
(* SetSocket).  The c-th connection has descriptor c and receiving thread   *)
(* c; descriptor 0 is INVALID_SOCKET.  ClientLink has what happens between: *)
(* here a frame is MSG_CONNECT or nothing.                                  *)
EXTENDS Naturals

CONSTANTS MaxConns  \* bound: sockets that Connect opens

ASSUME ConnectionAssumption == MaxConns \in Nat

Conn   == 1..MaxConns
App    == 0
Thread == {App} \cup Conn

VARIABLES sock,        \* _socket
          keep,        \* _keep_running_thread
          thread,      \* _receive_thread is not null
          at,          \* where the application and each receiving thread are
          call,        \* the call the application is in
          answer,      \* what that call will answer
          fd,          \* the descriptor a receiving thread passed to select
          opened,      \* sockets opened so far
          mine,        \* this end of each connection
          peer,        \* the server's instance for each connection
          arrived,     \* MSG_CONNECT is on its way to this end
          history      \* read by the properties only

objectVars == <<sock, keep, thread>>
linkVars == <<opened, mine, peer, arrived>>
vars == <<objectVars, at, call, answer, fd, linkVars, history>>

(* sent: the server sent MSG_CONNECT on the newest connection.  heard: its  *)
(* receiving thread announced it before the Connect under way gave up.      *)
(* stray: the wait of the call under way woke by itself.  crowded: a        *)
(* Connect began while an older receiving thread still ran.                 *)
Init == /\ sock = 0 /\ keep = FALSE /\ thread = FALSE
        /\ at = [t \in Thread |-> IF t = App THEN "idle" ELSE "none"]
        /\ call = "none" /\ answer = TRUE
        /\ fd = [c \in Conn |-> 0]
        /\ opened = 0
        /\ mine = [c \in Conn |-> "none"]
        /\ peer = [c \in Conn |-> "none"]
        /\ arrived = [c \in Conn |-> FALSE]
        /\ history = [sent |-> FALSE, heard |-> FALSE, stray |-> FALSE,
                      crowded |-> FALSE]

Goes(t, place) == at' = [at EXCEPT ![t] = place]
Moves(t, from, to) == at[t] = from /\ Goes(t, to)

Receivers == {c \in Conn : at[c] \notin {"none", "gone"}}

(* Bug seeded for the runs: the thread is created before the mutex is taken. *)
LockedLate == at[App] = "create"

(* _cond_connect_obj, from before pthread_create to pthread_cond_timedwait. *)
Locked == at[App] \in {"create", "clock"}

-----------------------------------------------------------------------------
(* The application in Connect.                                              *)

Ends(a) == answer' = a /\ Goes(App, "return")

(* Refused while there is a socket; otherwise SetKeepReceiving(true) speaks *)
(* to whoever still runs for the last connection, too.                      *)
ConnectBegin ==
    /\ at[App] = "idle"
    /\ opened < MaxConns
    /\ call' = "Connect"
    /\ \/ sock # 0 /\ Ends(FALSE) /\ UNCHANGED <<keep, history>>
       \/ /\ sock = 0
          /\ Goes(App, "socket")
          /\ keep' = TRUE
          /\ history' = [history EXCEPT !.crowded = @ \/ Receivers # {}]
          /\ UNCHANGED answer
    /\ UNCHANGED <<sock, thread, fd, linkVars>>

ConnectSocket ==
    /\ at[App] = "socket"
    /\ \/ /\ opened' = opened + 1
          /\ sock' = opened'
          /\ mine' = [mine EXCEPT ![opened'] = "dialing"]
          /\ Goes(App, "dial")
          /\ history' = [history EXCEPT !.sent = FALSE]
          /\ UNCHANGED answer
       \/ Ends(FALSE) /\ UNCHANGED <<opened, sock, mine, history>>
    /\ UNCHANGED <<keep, thread, call, fd, peer, arrived>>

(* Bug seeded for the runs: a failure does not close the socket. *)
DialUnclosed ==
    /\ at[App] = "dial"
    /\ \/ /\ sock # 0 /\ mine[sock] = "dialing"
          /\ mine' = [mine EXCEPT ![sock] = "open"]
          /\ peer' = [peer EXCEPT ![sock] = "accepted"]
          /\ Goes(App, "create")
          /\ UNCHANGED answer
       \/ /\ answer' = FALSE /\ Goes(App, "forget")
          /\ UNCHANGED <<mine, peer>>
    /\ UNCHANGED <<objectVars, call, fd, opened, arrived, history>>

(* The socket's options and connect, which the server's listener accepts.   *)
(* Any failure closes the socket and forgets it.                            *)
Dial ==
    /\ at[App] = "dial"
    /\ \/ /\ sock # 0 /\ mine[sock] = "dialing"
          /\ mine' = [mine EXCEPT ![sock] = "open"]
          /\ peer' = [peer EXCEPT ![sock] = "accepted"]
          /\ Goes(App, "create")
          /\ UNCHANGED answer
       \/ /\ answer' = FALSE /\ Goes(App, "close")
          /\ UNCHANGED <<mine, peer>>
    /\ UNCHANGED <<objectVars, call, fd, opened, arrived, history>>

(* pthread_create, or Disconnect when it fails. *)
CreateReceiver ==
    /\ at[App] = "create"
    /\ \/ at' = [at EXCEPT ![App] = "clock", ![opened] = "look"] /\ thread' = TRUE
       \/ Goes(App, "stop") /\ thread' = FALSE
    /\ answer' = FALSE
    /\ UNCHANGED <<sock, keep, call, fd, linkVars, history>>

(* time(null) fails, or the wait begins, which unlocks _cond_connect_obj. *)
ConnectClock ==
    /\ at[App] = "clock"
    /\ \/ Goes(App, "wait") /\ UNCHANGED answer
       \/ Goes(App, "force") /\ answer' = FALSE
    /\ UNCHANGED <<objectVars, call, fd, linkVars, history>>

(* Bug seeded for the runs: the result of the timed wait is not looked at. *)
TimeoutIgnored ==
    /\ Moves(App, "wait", "woken")
    /\ UNCHANGED <<objectVars, call, answer, fd, linkVars, history>>

(* CONECT_TIMEOUT_SECONDS are over. *)
ConnectTimeout ==
    /\ Moves(App, "wait", "force")
    /\ answer' = FALSE
    /\ UNCHANGED <<objectVars, call, fd, linkVars, history>>

(* The wait wakes by itself, as POSIX lets it: no predicate is tested.      *)
ConnectStray ==
    /\ Moves(App, "wait", "woken")
    /\ history' = [history EXCEPT !.stray = TRUE]
    /\ UNCHANGED <<objectVars, call, answer, fd, linkVars>>

(* Any wakeup is taken for the server's MSG_CONNECT. *)
ConnectWoken ==
    /\ at[App] = "woken"
    /\ Ends(TRUE)
    /\ UNCHANGED <<objectVars, call, fd, linkVars, history>>

-----------------------------------------------------------------------------
(* Disconnect and the destructor.  A Send that gives up calls               *)
(* DisconnectForcibly on the application's thread.                          *)

CallBegin ==
    /\ at[App] = "idle"
    /\ \E c \in {"Disconnect", "Destroy", "Force"} :
          call' = c /\ Goes(App, IF c = "Force" THEN "force" ELSE "stop")
    /\ UNCHANGED <<objectVars, answer, fd, linkVars, history>>

DisconnectNothing ==
    /\ at[App] = "stop" /\ sock = 0
    /\ Ends(FALSE)
    /\ UNCHANGED <<objectVars, call, fd, linkVars, history>>

DisconnectUnread ==
    /\ at[App] = "stop" /\ sock # 0 /\ ~thread
    /\ Goes(App, "close")
    /\ UNCHANGED <<objectVars, call, answer, fd, linkVars, history>>

(* Bug seeded for the runs: the socket is closed without waiting. *)
DisconnectAtOnce ==
    /\ at[App] = "stop" /\ sock # 0 /\ thread
    /\ keep' = FALSE
    /\ Goes(App, "close")
    /\ UNCHANGED <<sock, thread, call, answer, fd, linkVars, history>>

(* The flag is lowered and the wait begun under _cond_exit_obj. *)
DisconnectWait ==
    /\ at[App] = "stop" /\ sock # 0 /\ thread
    /\ \/ Goes(App, "exitwait") /\ keep' = FALSE /\ UNCHANGED answer
       \/ Ends(FALSE) /\ UNCHANGED keep
    /\ UNCHANGED <<sock, thread, call, fd, linkVars, history>>

(* DISCONECT_TIMEOUT_SECONDS are over: the socket stays. *)
DisconnectTimeout ==
    /\ at[App] = "exitwait"
    /\ Ends(FALSE)
    /\ UNCHANGED <<objectVars, call, fd, linkVars, history>>

(* This wait, too, takes any wakeup for the receiving thread's end. *)
DisconnectStray ==
    /\ Moves(App, "exitwait", "close")
    /\ history' = [history EXCEPT !.stray = TRUE]
    /\ UNCHANGED <<objectVars, call, answer, fd, linkVars>>

(* The call is over; the destructor goes on whatever Disconnect answered. *)
Return ==
    /\ Moves(App, "return", IF call = "Destroy" THEN "destroyed" ELSE "idle")
    /\ call' = "none"
    /\ answer' = (answer \/ call # "Destroy")
    /\ history' = [history EXCEPT !.heard = FALSE, !.stray = @ /\ call = "Destroy"]
    /\ UNCHANGED <<objectVars, fd, linkVars>>

-----------------------------------------------------------------------------
(* DisconnectForcibly, by the application or by a receiving thread, and the *)
(* end that Disconnect and a failing Connect share with it.                 *)

Closed(t) == Goes(t, IF t = App THEN "return" ELSE "exit")

ForceTest(t) ==
    /\ at[t] = "force"
    /\ IF sock = 0 THEN Closed(t) ELSE Goes(t, "drop")
    /\ answer' = (answer /\ (t = App => sock # 0))
    /\ UNCHANGED <<objectVars, call, fd, linkVars, history>>


ForceDrop(t) ==
    /\ Moves(t, "drop", "close")
    /\ keep' = (keep /\ ~thread)
    /\ UNCHANGED <<sock, thread, call, answer, fd, linkVars, history>>

(* shutdown and close of whatever _socket is by now. *)
Close(t) ==
    /\ Moves(t, "close", "forget")
    /\ mine' = [c \in Conn |-> IF c = sock THEN "shut" ELSE mine[c]]
    /\ UNCHANGED <<objectVars, call, answer, fd, opened, peer, arrived, history>>

Forget(t) ==
    /\ at[t] = "forget"
    /\ sock' = 0
    /\ Closed(t)
    /\ UNCHANGED <<keep, thread, call, answer, fd, linkVars, history>>

-----------------------------------------------------------------------------
(* ReceiveThread.                                                           *)

(* KeepReceiving looks at _socket and then at the flag. *)
Look(r) ==
    /\ \/ at[r] = "look" /\ Goes(r, IF sock # 0 THEN "flag" ELSE "exit")
       \/ at[r] = "flag" /\ Goes(r, IF keep THEN "watch" ELSE "exit")
    /\ UNCHANGED <<objectVars, call, answer, fd, linkVars, history>>

(* FD_SET(client->GetSocket()). *)
Watch(r) ==
    /\ Moves(r, "watch", "select")
    /\ fd' = [fd EXCEPT ![r] = sock]
    /\ UNCHANGED <<objectVars, call, answer, linkVars, history>>

(* A socket shut down, closed at the other end, or with a frame to read. *)
Readable(c) == c # 0 /\ (mine[c] = "shut" \/ arrived[c] \/ peer[c] = "closed")

(* Bug seeded for the runs: select has no timeout. *)
SelectBlocks(r) ==
    /\ at[r] = "select"
    /\ \/ Readable(fd[r]) /\ Goes(r, "recv")
       \/ fd[r] # 0 /\ mine[fd[r]] = "shut" /\ Goes(r, "force")
    /\ fd' = [fd EXCEPT ![r] = 0]
    /\ UNCHANGED <<objectVars, call, answer, linkVars, history>>

Select(r) ==
    /\ at[r] = "select"
    /\ \/ ~Readable(fd[r]) /\ Goes(r, "look")
       \/ Readable(fd[r]) /\ Goes(r, "recv")
       \/ fd[r] # 0 /\ mine[fd[r]] = "shut" /\ Goes(r, "force")
    /\ fd' = [fd EXCEPT ![r] = 0]
    /\ UNCHANGED <<objectVars, call, answer, linkVars, history>>

(* recv(client->GetSocket()), which need not be the socket of the select. *)
Recv(r) ==
    /\ at[r] = "recv"
    /\ IF sock = 0 \/ mine[sock] # "open"
       THEN Goes(r, "force") /\ UNCHANGED arrived
       ELSE IF arrived[sock]
            THEN Goes(r, "announce") /\ arrived' = [arrived EXCEPT ![sock] = FALSE]
            ELSE peer[sock] = "closed" /\ Goes(r, "force") /\ UNCHANGED arrived
    /\ UNCHANGED <<objectVars, call, answer, fd, opened, mine, peer, history>>

(* StopConnectWaiting: broadcast under _cond_connect_obj. *)
Announce(r) ==
    /\ at[r] = "announce"
    /\ ~Locked
    /\ at' = [at EXCEPT ![r] = "look", ![App] = IF @ = "wait" THEN "woken" ELSE @]
    /\ history' = IF r = opened /\ at[App] \in {"clock", "wait"}
                  THEN [history EXCEPT !.heard = TRUE] ELSE history
    /\ UNCHANGED <<objectVars, call, answer, fd, linkVars>>

(* The events OnServerClose and OnSocketError change nothing here; then     *)
(* StopDisconnectWaiting, and the thread is over.                           *)
Exit(r) ==
    /\ at[r] = "exit"
    /\ at' = [at EXCEPT ![r] = "gone", ![App] = IF @ = "exitwait" THEN "close" ELSE @]
    /\ UNCHANGED <<objectVars, call, answer, fd, linkVars, history>>

-----------------------------------------------------------------------------
(* The server's instance of a connection.                                   *)
Becomes(c, from, to) == peer[c] = from /\ peer' = [peer EXCEPT ![c] = to]

(* SetSocket: an option that cannot be set makes the instance close the     *)
(* socket, a thread that cannot be created makes it forget it, still open.  *)
SetSocketFails(c) == \E p \in {"closed", "leaked"} : Becomes(c, "accepted", p)

(* CCommonServer::Connect: SimpleSend(MSG_CONNECT), which may fail. *)
SimpleSend(c) ==
    \/ /\ arrived' = [arrived EXCEPT ![c] = TRUE]
       /\ history' = [history EXCEPT !.sent = @ \/ c = opened]
    \/ UNCHANGED <<arrived, history>>

InstanceBegins(c) ==
    \/ SetSocketFails(c) /\ UNCHANGED <<arrived, history>>
    \/ Becomes(c, "accepted", "running") /\ SimpleSend(c)

(* The service is stopped, or this end is gone. *)
InstanceEnds(c) == Becomes(c, "running", "closed") /\ UNCHANGED <<arrived, history>>

-----------------------------------------------------------------------------
AppStep == \/ ConnectSocket \/ Dial \/ CreateReceiver
           \/ ConnectClock \/ ConnectTimeout \/ ConnectStray \/ ConnectWoken
           \/ DisconnectNothing \/ DisconnectUnread \/ DisconnectWait
           \/ DisconnectTimeout \/ DisconnectStray \/ Return
           \/ ForceTest(App) \/ ForceDrop(App) \/ Close(App) \/ Forget(App)

ReceiverStep(r) == \/ Look(r) \/ Watch(r) \/ Select(r) \/ Recv(r)
                   \/ Announce(r) \/ Exit(r)
                   \/ ForceTest(r) \/ ForceDrop(r) \/ Close(r) \/ Forget(r)

PeerStep(c) == /\ InstanceBegins(c) \/ InstanceEnds(c)
               /\ UNCHANGED <<objectVars, at, call, answer, fd, opened, mine>>

Next == \/ ConnectBegin \/ CallBegin \/ AppStep
        \/ \E c \in Conn : ReceiverStep(c) \/ PeerStep(c)

(* Threads inside a call or alive are scheduled; the application need not   *)
(* call anything and the server need not answer or close.                   *)
Spec == /\ Init /\ [][Next]_vars
        /\ WF_vars(AppStep)
        /\ \A c \in Conn : WF_vars(ReceiverStep(c))

-----------------------------------------------------------------------------
(* Types; the application and a receiving thread are where their code is. *)
TypeOK ==
    /\ sock \in 0..MaxConns /\ opened \in 0..MaxConns
    /\ {keep, thread, answer} \subseteq BOOLEAN
    /\ at[App] \in {"idle", "socket", "dial", "create", "clock", "wait",
                   "woken", "stop", "exitwait", "force", "drop", "close", "forget",
                   "return", "destroyed"}
    /\ \A c \in Conn : at[c] \in {"none", "look", "flag", "watch", "select",
                   "recv", "announce", "force", "drop", "close", "forget",
                   "exit", "gone"}
    /\ call \in {"none", "Connect", "Disconnect", "Destroy", "Force"}
    /\ fd \in [Conn -> 0..MaxConns]
    /\ mine \in [Conn -> {"none", "dialing", "open", "shut"}]
    /\ peer \in [Conn -> {"none", "accepted", "running", "closed", "leaked"}]
    /\ arrived \in [Conn -> BOOLEAN]
    /\ history \in [sent : BOOLEAN, heard : BOOLEAN, stray : BOOLEAN, crowded : BOOLEAN]

(* As long as no Connect began over an older receiving thread, Connect      *)
(* answers true only when the server of this very connection sent           *)
(* MSG_CONNECT, whatever timeouts, failures and closings came between,      *)
(* unless its wait woke by itself, which it takes for the answer.           *)
TrueMeansAnswered ==
    call = "Connect" /\ at[App] = "return" /\ answer /\ ~history.stray /\ ~history.crowded
       => history.sent

(* The answer the receiving thread announces before Connect gave up is      *)
(* never missed: Connect does not report a timeout for it, though the       *)
(* thread may be ahead of the wait it has to end.                           *)
AnswerIsNotMissed == history.heard /\ at[App] = "return" => answer

(* No call leaves a descriptor open that _socket no longer names, however   *)
(* the application's and the receiving thread's closings overlap (as long   *)
(* as no Connect began over an older receiving thread).                     *)
NoSocketLeft ==
    ~history.crowded => \A c \in Conn : mine[c] \in {"dialing", "open"} => c = sock

(* When the Disconnect of the destructor answers true, no receiving thread  *)
(* is left to use the executer and the mutexes it deletes, unless the wait  *)
(* of that Disconnect woke by itself (and the exception above).             *)
DestroyedMeansQuiet ==
    at[App] = "destroyed" /\ answer /\ ~history.crowded /\ ~history.stray
       => Receivers = {}

(* A receiving thread ends once its connection is shut, by whichever side   *)
(* of the object, unless a Connect has revived it.                          *)
ReceiverLeaves ==
    \A c \in Conn : mine[c] = "shut" ~> at[c] \in {"none", "gone"} \/ history.crowded

=============================================================================

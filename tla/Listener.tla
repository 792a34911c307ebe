------------------------------ MODULE Listener ------------------------------
(* The service as the program sees it (common/VControlServer.cpp, app/      *)
(* main.cpp): StartCommonServer and StopCommonServer, the TCP and the UDP   *)
(* listening threads with their two handles, and the thread that owns each  *)
(* accepted connection.  Connections are numbered in the order of accept;   *)
(* instance i is the thread created for connection i.  What an instance     *)
(* does with its connection is module ClientLink.                           *)
EXTENDS Naturals

CONSTANTS MaxAccepts,     \* bound: connections ever accepted
          MaxStarts,      \* bound: calls of StartCommonServer
          CreateFails,    \* whether pthread_create may fail
          FailedHandle    \* what a failing pthread_create may leave in the
                          \* handle (0 before it): subset of {"zero", "set"}

Conn    == 1..MaxAccepts
Garbage == MaxAccepts + 1   \* a descriptor that is no connection of ours

ASSUME ListenerAssumption == /\ MaxAccepts \in Nat
                             /\ MaxStarts \in Nat
                             /\ CreateFails \in BOOLEAN
                             /\ FailedHandle \subseteq {"zero", "set"}

VARIABLES stopAll,    \* StopAll
          handle,     \* the two thread handles are "zero" or "set"
          listener,   \* where each listening thread is
          control,    \* where the calling program is
          slot,       \* newClient_socket in the frame of BeginMySocketListen
          inst,       \* where each instance thread is
          socketOf,   \* the connection each instance was given, 0 for none
          accepts, starts

serviceVars == <<stopAll, handle, listener, control, slot, inst, socketOf, accepts,
                 starts>>

Kind == {"tcp", "udp"}

ServiceInit ==
    /\ stopAll = FALSE
    /\ handle = [k \in Kind |-> "zero"]
    /\ listener = [k \in Kind |-> "none"]
    /\ control = "idle"
    /\ slot = 0
    /\ inst = [i \in Conn |-> "none"]
    /\ socketOf = [i \in Conn |-> 0]
    /\ accepts = 0 /\ starts = 0

instVars == <<slot, inst, socketOf, accepts>>

-----------------------------------------------------------------------------
(* StartCommonServer: lowers StopAll before it looks at the handles, and    *)
(* ends the calling thread when a service is still there.                   *)
(* Bug seeded for the runs: the handles are not looked at. *)
StartUnchecked ==
    /\ control \in {"idle", "stopped", "running", "failed"}
    /\ starts < MaxStarts
    /\ starts' = starts + 1
    /\ stopAll' = FALSE
    /\ control' = "start_udp"
    /\ UNCHANGED <<handle, listener, instVars>>

StartBegin ==
    /\ control \in {"idle", "stopped", "running", "failed"}
    /\ starts < MaxStarts
    /\ starts' = starts + 1
    /\ stopAll' = FALSE
    /\ control' = IF \E k \in Kind : handle[k] = "set" THEN "exited" ELSE "start_udp"
    /\ UNCHANGED <<handle, listener, instVars>>

(* pthread_create for thread k; "next" is what a success leads to. *)
CreateThread(k, here, next) ==
    /\ control = here
    /\ \/ /\ handle' = [handle EXCEPT ![k] = "set"]
          /\ listener' = [listener EXCEPT ![k] = "setup"]
          /\ control' = next
       \/ /\ CreateFails
          /\ \E h \in FailedHandle : handle' = [handle EXCEPT ![k] = h]
          /\ control' = "failed"
          /\ UNCHANGED listener
    /\ UNCHANGED <<stopAll, instVars, starts>>

StartUdp == CreateThread("udp", "start_udp", "start_tcp")
StartTcp == CreateThread("tcp", "start_tcp", "running")

(* StopCommonServer, which main also calls when starting failed: raises     *)
(* StopAll and polls both handles every second.                             *)
StopBegin ==
    /\ control \in {"running", "failed"}
    /\ stopAll' = TRUE
    /\ control' = "stopping"
    /\ UNCHANGED <<handle, listener, instVars, starts>>

(* Bug seeded for the runs: only one of the two handles is polled. *)
StopDoneTcp ==
    /\ control = "stopping"
    /\ handle["tcp"] = "zero"
    /\ control' = "stopped"
    /\ UNCHANGED <<stopAll, handle, listener, instVars, starts>>

StopDone ==
    /\ control = "stopping"
    /\ \A k \in Kind : handle[k] = "zero"
    /\ control' = "stopped"
    /\ UNCHANGED <<stopAll, handle, listener, instVars, starts>>

-----------------------------------------------------------------------------
(* BeginMySocketListen and BeginMySocketBroadcastListen: socket, bind and   *)
(* (tcp) listen first; then each round looks at StopAll and waits at most   *)
(* NK_SVR_TIMETOCHECK seconds in select.                                    *)

SetUp(k) ==
    /\ listener[k] = "setup"
    /\ listener' = [listener EXCEPT ![k] = "running"]
    /\ UNCHANGED <<stopAll, handle, control, instVars, starts>>

(* exit(1): the whole process ends, its connections with it. *)
SetUpFails(k) ==
    /\ listener[k] = "setup"
    /\ listener' = [j \in Kind |-> "ended"]
    /\ inst' = [i \in Conn |-> IF inst[i] = "none" THEN "none" ELSE "ended"]
    /\ control' = "dead"
    /\ UNCHANGED <<stopAll, handle, slot, socketOf, accepts, starts>>

LoopTop(k) ==
    /\ listener[k] = "running"
    /\ listener' = [listener EXCEPT ![k] = IF stopAll THEN "leaving" ELSE "select"]
    /\ UNCHANGED <<stopAll, handle, control, instVars, starts>>

(* Nothing came, select failed, or (udp) a datagram was answered. *)
SelectReturns(k) ==
    /\ listener[k] = "select"
    /\ listener' = [listener EXCEPT ![k] = "running"]
    /\ UNCHANGED <<stopAll, handle, control, instVars, starts>>

(* accept succeeds: the new socket replaces the last one in the listener's  *)
(* stack frame, and the new thread gets the address of that variable.  When *)
(* the thread cannot be created, nobody will ever close the connection.     *)
Accept ==
    /\ listener["tcp"] = "select"
    /\ accepts < MaxAccepts
    /\ accepts' = accepts + 1
    /\ slot' = accepts + 1
    /\ \/ inst' = [inst EXCEPT ![accepts + 1] = "born"]
       \/ CreateFails /\ inst' = [inst EXCEPT ![accepts + 1] = "orphan"]
    /\ listener' = [listener EXCEPT !["tcp"] = "running"]
    /\ UNCHANGED <<stopAll, handle, control, socketOf, starts>>

(* accept fails: -1 replaces the last socket and the service stops          *)
(* listening for good.                                                      *)
AcceptFails ==
    /\ listener["tcp"] = "select"
    /\ slot' = Garbage
    /\ listener' = [listener EXCEPT !["tcp"] = "leaving"]
    /\ UNCHANGED <<stopAll, handle, control, inst, socketOf, accepts, starts>>

(* Bug seeded for the runs: the thread ends without zeroing its handle. *)
LeaveSilently(k) ==
    /\ listener[k] = "leaving"
    /\ listener' = [listener EXCEPT ![k] = "ended"]
    /\ UNCHANGED <<stopAll, handle, control, instVars, starts>>

(* Closes the listening socket and zeroes the handle.  The TCP listener's   *)
(* stack frame goes with it: an instance that has not read its socket yet   *)
(* is left with a dangling pointer.                                         *)
LeaveLoop(k) ==
    /\ listener[k] = "leaving"
    /\ listener' = [listener EXCEPT ![k] = "ended"]
    /\ handle' = [handle EXCEPT ![k] = "zero"]
    /\ inst' = IF k = "udp" THEN inst
               ELSE [i \in Conn |-> IF inst[i] = "born" THEN "astray" ELSE inst[i]]
    /\ UNCHANGED <<stopAll, control, slot, socketOf, accepts, starts>>

-----------------------------------------------------------------------------
(* CreatCommonServerInstance of instance i.                                 *)

(* Detached and constructed, it reads the socket through the pointer and    *)
(* calls SetSocket, which may fail.  Through a dangling pointer it reads    *)
(* what the variable held last, what a restarted listener stored in the     *)
(* same place, or Garbage.                                                  *)
TakeSocket(i) ==
    /\ inst[i] \in {"born", "astray"}
    /\ \E s \in IF inst[i] = "born" THEN {slot} ELSE {slot, Garbage} :
          socketOf' = [socketOf EXCEPT ![i] = s]
    /\ \E place \in {"serving", "closing"} : inst' = [inst EXCEPT ![i] = place]
    /\ UNCHANGED <<stopAll, handle, listener, control, slot, accepts, starts>>

(* Bug seeded for the runs: the poll does not look at StopAll. *)
PollNothing(i) == inst[i] = "serving" /\ FALSE /\ UNCHANGED serviceVars

(* while (GetIsConnection()) { sleep(5); if (StopAll) break; } *)
PollStop(i) ==
    /\ inst[i] = "serving"
    /\ stopAll
    /\ inst' = [inst EXCEPT ![i] = "closing"]
    /\ UNCHANGED <<stopAll, handle, listener, control, slot, socketOf, accepts, starts>>

ConnectionGone(i) ==
    /\ inst[i] = "serving"
    /\ inst' = [inst EXCEPT ![i] = "closing"]
    /\ UNCHANGED <<stopAll, handle, listener, control, slot, socketOf, accepts, starts>>

(* Disconnect; the CCommonServer object is never deleted. *)
InstanceEnds(i) ==
    /\ inst[i] = "closing"
    /\ inst' = [inst EXCEPT ![i] = "ended"]
    /\ UNCHANGED <<stopAll, handle, listener, control, slot, socketOf, accepts, starts>>

-----------------------------------------------------------------------------
ControlStep == StartUdp \/ StartTcp \/ StopDone
LoopStep(k) == SetUp(k) \/ LoopTop(k) \/ SelectReturns(k) \/ LeaveLoop(k)
InstStep(i) == TakeSocket(i) \/ PollStop(i) \/ InstanceEnds(i)

ServiceNext == \/ StartBegin \/ StopBegin \/ ControlStep
               \/ \E k \in Kind : LoopStep(k) \/ SetUpFails(k)
               \/ Accept \/ AcceptFails
               \/ \E i \in Conn : InstStep(i) \/ ConnectionGone(i)

(* Every thread is scheduled and select times out; nobody has to connect,   *)
(* to disconnect, to start or to stop the service.                          *)
ServiceSpec == /\ ServiceInit /\ [][ServiceNext]_serviceVars
               /\ WF_serviceVars(ControlStep)
               /\ \A k \in Kind : WF_serviceVars(LoopStep(k))
               /\ \A i \in Conn : WF_serviceVars(InstStep(i))

-----------------------------------------------------------------------------
(* Type invariant of the service. *)
ServiceTypeOK ==
    /\ stopAll \in BOOLEAN
    /\ handle \in [Kind -> {"zero", "set"}]
    /\ listener \in [Kind -> {"none", "setup", "running", "select", "leaving", "ended"}]
    /\ control \in {"idle", "start_udp", "start_tcp", "running", "failed",
                    "stopping", "stopped", "exited", "dead"}
    /\ slot \in 0..accepts \cup {Garbage}
    /\ inst \in [Conn -> {"none", "born", "astray", "orphan", "serving", "closing", "ended"}]
    /\ socketOf \in [Conn -> 0..Garbage]
    /\ accepts \in 0..MaxAccepts
    /\ starts \in 0..MaxStarts

Starting == [udp |-> "start_udp", tcp |-> "start_tcp"]
Alive(k) == listener[k] \in {"setup", "running", "select", "leaving"}

(* A listening thread is created only when the one before it is over, so    *)
(* the port is never bound twice, however Start and Stop follow each other. *)
NoSecondListener ==
    [][\A k \in Kind :
          control = Starting[k] /\ handle'[k] = "set" => ~Alive(k)]_serviceVars

(* Once StopCommonServer has returned nothing listens any more. *)
StoppedMeansDeaf == control = "stopped" => \A k \in Kind : ~Alive(k)

(* StopCommonServer returns: both listening threads see StopAll in the end, *)
(* unless one of them could not be set up and ended the process.            *)
StopReturns == control = "stopping" ~> control \in {"stopped", "dead"}

(* An instance serving when the service is stopped ends, unless the service *)
(* is started again before its next poll of StopAll.                        *)
StopEndsInstances ==
    \A i \in Conn : inst[i] = "serving" /\ stopAll ~> inst[i] = "ended" \/ ~stopAll

(* The routine documented at the top of VControlServer.cpp: "remote IP      *)
(* connect request approaching, then create new thread, and new             *)
(* CCommonServer instance, and input Socket": the instance created for a    *)
(* connection is given the socket of that connection.                       *)
InstanceHasItsSocket == \A i \in Conn : socketOf[i] \in {0, i}
=============================================================================

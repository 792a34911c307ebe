-------------------------------- MODULE Jobs ---------------------------------
(* The long requests of CCommonServer (common/CommonServer.cpp): a download, *)
(* a memory read and a shell command each run on a thread of their own.     *)
(* OnReceived runs on the one executing thread, which takes the requests of *)
(* the client in order (EventExecuter): while it waits for the last job of  *)
(* a kind to end, nothing else is taken out of the queue.  SendData holds   *)
(* _ServerSend_obj, so that a send is one step; a send that failed may have *)
(* reached the client (ClientLink).                                         *)
EXTENDS Naturals, Sequences

CONSTANTS MaxJobs,      \* bound: jobs the client ever asks for
          MaxBlocks,    \* bound: blocks of a file, lines of an output
          FailedHandle  \* what pthread_create may leave in a handle when it
                        \* fails: FALSE (zero), TRUE (a thread never started)

ASSUME JobsAssumption == /\ MaxJobs \in Nat /\ MaxBlocks \in Nat
                         /\ FailedHandle \subseteq BOOLEAN

Kind == {"file", "memory", "command"}
Job == 1..MaxJobs

VARIABLES exec,     \* the executing thread: "ready", or the kind it starts
          handle,   \* m_threadDownFile, m_threadReadMemory, m_threadCMD # 0
          cancel,   \* m_bIsGetFileCancel, m_bIsReadMemoryCancel, m_bIsCMDCancel
          request,  \* m_pGetFilePath, m_memInfoRead, m_CMD: whose they are
          started,  \* the jobs whose handlers have run
          job,      \* the threads of the jobs
          alive     \* the process

vars == <<exec, handle, cancel, request, started, job, alive>>

(* kind, place, blocks in all and blocks not yet read, whether the end      *)
(* never comes; history: whether a send failed, what the client got,        *)
(* whether a cancel was handled before or after the thread lowered the      *)
(* flag, and the blocks sent since (0 to 2)                                 *)
NoJob == [kind |-> "file", at |-> "none", size |-> 0, left |-> 0,
          endless |-> FALSE, failed |-> FALSE, got |-> <<>>, told |-> "no", after |-> 0]

Init == /\ exec = "ready"
        /\ handle = [k \in Kind |-> FALSE]
        /\ cancel = [k \in Kind |-> FALSE]
        /\ request = [k \in Kind |-> 0]
        /\ started = 0
        /\ job = [j \in Job |-> NoJob]
        /\ alive = TRUE

Becomes(j, record) == job' = [job EXCEPT ![j] = record]
Running(j) == job[j].at \notin {"none", "done"}

-----------------------------------------------------------------------------
(* The executing thread: OnReceived.                                        *)

(* MSG_GETFILE, MSG_READMEMORY, MSG_CMD *)
Ask(k) == /\ exec = "ready" /\ started < MaxJobs
          /\ exec' = k
          /\ UNCHANGED <<handle, cancel, request, started, job, alive>>

(* Bug seeded for the runs: the handler does not wait for the last job. *)
LaunchWithoutWait ==
    /\ exec \in Kind
    /\ started' = started + 1
    /\ request' = [request EXCEPT ![exec] = started']
    /\ handle' = [handle EXCEPT ![exec] = TRUE]
    /\ Becomes(started', [NoJob EXCEPT !.kind = exec, !.at = "start"])
    /\ exec' = "ready"
    /\ UNCHANGED <<cancel, alive>>

(* while (0 != handle) sleep(5); keeps the request and creates the thread,  *)
(* which may fail: nothing tells the client.                                *)
Launch ==
    /\ exec \in Kind
    /\ ~handle[exec]
    /\ started' = started + 1
    /\ request' = [request EXCEPT ![exec] = started']
    /\ \/ /\ handle' = [handle EXCEPT ![exec] = TRUE]
          /\ Becomes(started', [NoJob EXCEPT !.kind = exec, !.at = "start"])
       \/ /\ \E h \in FailedHandle : handle' = [handle EXCEPT ![exec] = h]
          /\ Becomes(started', [NoJob EXCEPT !.kind = exec, !.at = "done",
                                             !.failed = TRUE])
    /\ exec' = "ready"
    /\ UNCHANGED <<cancel, alive>>

(* MSG_GETFILE_CANCEL, MSG_READMEMORY_CANCEL, MSG_CMD_CANCEL *)
Cancel(k) ==
    /\ exec = "ready"
    /\ cancel' = [cancel EXCEPT ![k] = TRUE]
    /\ job' = [j \in Job |->
         IF ~(Running(j) /\ job[j].kind = k) \/ job[j].told = "late" THEN job[j]
         ELSE [job[j] EXCEPT !.told = IF job[j].at = "start" THEN "early" ELSE "late",
                             !.after = 0]]
    /\ UNCHANGED <<exec, handle, request, started, alive>>

ExecStep == Launch \/ \E k \in Kind : Ask(k) \/ Cancel(k)

-----------------------------------------------------------------------------
(* A job's thread: DownFile_DoWork, ReadMemory_DoWork, CMD_DoWork.          *)
Goes(j, place) == Becomes(j, [job[j] EXCEPT !.at = place])

(* Where a thread goes when it needs no more blocks. *)
Rest(k) == IF k = "command" THEN "close" ELSE "finish"

(* Bug seeded for the runs: a cancel meant for an earlier job stays. *)
StartWithOldFlag(j) ==
    /\ job[j].at = "start"
    /\ Goes(j, "open")
    /\ UNCHANGED cancel

Start(j) ==
    /\ job[j].at = "start"
    /\ cancel' = [cancel EXCEPT ![job[j].kind] = FALSE]
    /\ Goes(j, "open")

(* A file ends; a command (ping, tail -f, sleep) need not.  The memory read *)
(* looks at iReadFinish, which nothing advances: it ends only at length 0.  *)
(* Of what has no end one block stands for those to come, if any come.      *)
Endless(k, n) == CASE k = "file"    -> {FALSE}
                   [] k = "memory"  -> {n # 0}
                   [] k = "command" -> BOOLEAN

(* fopen or popen succeeds; a memory read has nothing to open. *)
Open(j) ==
    /\ job[j].at = "open"
    /\ \E n \in 0..MaxBlocks : \E e \in Endless(job[j].kind, n) :
         /\ e => n <= 1
         /\ Becomes(j, [job[j] EXCEPT !.at = "read", !.size = n, !.left = n, !.endless = e])
    /\ UNCHANGED cancel

(* A file that cannot be opened: an empty MSG_GETFILE.  A command: nothing. *)
OpenFails(j) ==
    /\ job[j].at = "open"
    /\ job[j].kind # "memory"
    /\ Becomes(j, [job[j] EXCEPT !.failed = TRUE,
                 !.at = IF job[j].kind = "file" THEN "end" ELSE "finish"])
    /\ UNCHANGED cancel

(* fread or fgets takes a block or finds the end.  A command that neither   *)
(* ends nor writes is waited for.                                           *)
Read(j) ==
    /\ job[j].at = "read"
    /\ job[j].left = 0 => ~job[j].endless
    /\ IF job[j].left = 0 THEN Goes(j, Rest(job[j].kind))
       ELSE Becomes(j, [job[j] EXCEPT !.at = "check",
                      !.left = IF job[j].endless THEN @ ELSE @ - 1])
    /\ UNCHANGED cancel

(* Bug seeded for the runs: the loop does not look at the flag. *)
CheckNothing(j) ==
    /\ job[j].at = "check"
    /\ Goes(j, "send")
    /\ UNCHANGED cancel

Check(j) ==
    /\ job[j].at = "check"
    /\ Goes(j, IF cancel[job[j].kind] THEN Rest(job[j].kind) ELSE "send")
    /\ UNCHANGED cancel

(* What the client has after it got one more message; what has no end is    *)
(* not recorded.                                                            *)
Got(j, what) == IF job[j].endless THEN job[j].got
                ELSE Append(job[j].got, what)
After(j) == IF job[j].told # "no" /\ job[j].after < 2 THEN job[j].after + 1
            ELSE job[j].after

Send(j) ==
    /\ job[j].at = "send"
    /\ Becomes(j, [job[j] EXCEPT !.at = "read", !.got = Got(j, "block"),
                          !.after = After(j)])
    /\ UNCHANGED cancel

SendFails(j) ==
    /\ job[j].at = "send"
    /\ \E g \in {job[j].got, Got(j, "block")} :
         Becomes(j, [job[j] EXCEPT !.at = "end", !.failed = TRUE, !.got = g,
                            !.after = After(j)])
    /\ UNCHANGED cancel

(* The empty message after a failure, which may fail as well. *)
SendEnd(j) ==
    /\ job[j].at = "end"
    /\ \E g \in {job[j].got, Got(j, "end")} :
         Becomes(j, [job[j] EXCEPT !.at = Rest(job[j].kind), !.got = g])
    /\ UNCHANGED cancel

(* pclose; a command that was not cancelled ends with an empty message. *)
CloseCommand(j) ==
    /\ job[j].at = "close"
    /\ \/ cancel["command"] /\ Goes(j, "finish")
       \/ ~cancel["command"] /\ Goes(j, "last")
    /\ UNCHANGED cancel

SendLast(j) ==
    /\ job[j].at = "last"
    /\ \/ Becomes(j, [job[j] EXCEPT !.at = "finish", !.got = Got(j, "end")])
       \/ \E g \in {job[j].got, Got(j, "end")} :
            Becomes(j, [job[j] EXCEPT !.at = "finish", !.got = g, !.failed = TRUE])
    /\ UNCHANGED cancel

(* Bug seeded for the runs: a job that failed keeps its handle. *)
FinishUnlessFailed(j) ==
    /\ job[j].at = "finish"
    /\ handle' = [handle EXCEPT ![job[j].kind] = job[j].failed]
    /\ Goes(j, "done")
    /\ UNCHANGED cancel

(* m_thread... = 0 and the thread ends. *)
Finish(j) ==
    /\ job[j].at = "finish"
    /\ handle' = [handle EXCEPT ![job[j].kind] = FALSE]
    /\ Goes(j, "done")
    /\ UNCHANGED cancel

JobStep(j) ==
    /\ \/ Finish(j)
       \/ /\ \/ Start(j) \/ Open(j) \/ OpenFails(j) \/ Read(j) \/ Check(j)
             \/ Send(j) \/ SendFails(j) \/ SendEnd(j) \/ CloseCommand(j) \/ SendLast(j)
          /\ UNCHANGED handle
    /\ UNCHANGED <<exec, request, started, alive>>

(* ReadMemory_DoWork writes through pMemData, which was never initialised:  *)
(* the process may go on (Send) or be stopped.                              *)
Dies(j) == /\ job[j].at = "send" /\ job[j].kind = "memory"
           /\ alive' = FALSE
           /\ UNCHANGED <<exec, handle, cancel, request, started, job>>

Next == alive /\ (ExecStep \/ \E j \in Job : JobStep(j) \/ Dies(j))

(* The scheduler runs every thread; SendData returns (ClientLink).  But     *)
(* fgets and pclose return only when the command writes or ends: of one     *)
(* that has no end nothing is assumed there.                                *)
InEndlessCommand(j) ==
    job[j].kind = "command" /\ job[j].endless /\ job[j].at \in {"read", "close"}

Spec == /\ Init /\ [][Next]_vars
        /\ WF_vars(alive /\ Launch)
        /\ \A j \in Job : WF_vars(alive /\ ~InEndlessCommand(j) /\ JobStep(j))

-----------------------------------------------------------------------------
Place == {"none", "start", "open", "read", "check", "send", "end", "close",
          "last", "finish", "done"}
JobRecord == [kind : Kind, at : Place, size : 0..MaxBlocks, left : 0..MaxBlocks,
              endless : BOOLEAN, failed : BOOLEAN, got : Seq({"block", "end"}),
              told : {"no", "early", "late"}, after : 0..2]

(* Types: the executing thread, flags, parameters and threads; a thread     *)
(* never has more left to read than there was.                              *)
TypeOK ==
    /\ exec \in Kind \cup {"ready"} /\ alive \in BOOLEAN
    /\ handle \in [Kind -> BOOLEAN] /\ cancel \in [Kind -> BOOLEAN]
    /\ request \in [Kind -> 0..MaxJobs] /\ started \in 0..MaxJobs
    /\ job \in [Job -> JobRecord]
    /\ \A j \in Job : job[j].left <= job[j].size

(* While the thread of a job runs its handle is set and the path, range or  *)
(* command the thread reads from the object is its own: the next request of *)
(* the kind has neither freed nor replaced it.                              *)
ReadsOwnRequest ==
    \A j \in Job : Running(j) => handle[job[j].kind] /\ request[job[j].kind] = j

(* A job that has an end, that nobody cancelled and whose sends worked gave *)
(* the client the whole file, or the whole output and its end, whatever was *)
(* cancelled before.                                                        *)
Whole(j) == [i \in 1..job[j].size |-> "block"]
            \o (IF job[j].kind = "command" THEN <<"end">> ELSE <<>>)

NotCutShort ==
    \A j \in Job : (/\ job[j].at = "done" /\ ~job[j].endless
                    /\ job[j].told = "no" /\ ~job[j].failed) => job[j].got = Whole(j)

(* A job cancelled after it lowered the flag sends at most one more block:  *)
(* the one past the check.  The next job of the kind cannot lower the flag  *)
(* under it.                                                                *)
CancelStops == \A j \in Job : job[j].told = "late" => job[j].after <= 1

(* The wait for the last download or command ends, so that the executing    *)
(* thread takes the next request, unless the handle is a failed thread's or *)
(* the command has no end: its cancel is queued behind the wait.            *)
WaitEnds ==
    \A k \in {"file", "command"} :
      (exec = k /\ \E j \in Job : Running(j) /\ job[j].kind = k)
        ~> \/ exec # k \/ ~alive
           \/ \E j \in Job : Running(j) /\ job[j].kind = k /\ job[j].endless

(* A memory read, which never ends by itself, ends once it is cancelled. *)
CancelEndsMemoryRead ==
    \A j \in Job : (job[j].kind = "memory" /\ job[j].told = "late")
                     ~> (job[j].at = "done" \/ ~alive)
=============================================================================

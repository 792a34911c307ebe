---------------------------- MODULE MemoryScript -----------------------------
(* The memory scripts of CCommonServer (common/CommonServer.cpp): START     *)
(* announces a script's length, MEMORYSCRIPT brings it in pieces, the piece *)
(* that completes it creates a thread that runs it (MemoryScript_DoWork),   *)
(* CANCEL stops it.  The handlers run on the executing thread; nothing but  *)
(* the flags m_bIsMemoryScriptFinish and m_bIsMemoryScriptCancel keeps them *)
(* from a script that still runs.  A script is a number, its text a number  *)
(* of lines; START allocates a new text and never frees the old one.        *)
EXTENDS Naturals

CONSTANTS MaxScripts,  \* bound: scripts that START accepts
          MaxLines,    \* bound: lines of a script
          CreateFails  \* whether pthread_create may fail

ASSUME ScriptAssumption == /\ MaxScripts \in Nat /\ MaxLines \in Nat
                           /\ CreateFails \in BOOLEAN

Script == 1..MaxScripts

VARIABLES finish,     \* m_bIsMemoryScriptFinish
          cancel,     \* m_bIsMemoryScriptCancel
          current,    \* m_MemoryScript: the last script accepted, or 0 (NULL)
          announced,  \* m_MemoryScriptLength of each script
          received,   \* what has been appended to each script's text
          thread,     \* the thread each script created when it was complete
          calm        \* history: no cancel has been handled yet

vars == <<finish, cancel, current, announced, received, thread, calm>>

(* place, the text and length ScriptToLine took, the lines it found, the    *)
(* lines run and the lines passed over, bIsSuccess, the result sent;        *)
(* history: whether a cancel was handled before the result was chosen, or   *)
(* another script was accepted.                                             *)
NoThread == [at |-> "none", text |-> 0, length |-> 0, lines |-> 0, ran |-> 0,
             passed |-> 0, success |-> FALSE, result |-> "none", told |-> FALSE, overtaken |-> FALSE]

Init == /\ finish = TRUE /\ cancel = FALSE /\ current = 0 /\ calm = TRUE
        /\ announced = [s \in Script |-> 0]
        /\ received = [s \in Script |-> 0]
        /\ thread = [s \in Script |-> NoThread]

(* The thread may still run lines or report. *)
Busy(s) == thread[s].at \notin {"none", "reported", "done"}
Alive(s) == Busy(s) \/ thread[s].at = "reported"

-----------------------------------------------------------------------------
(* The executing thread: OnReceived.                                        *)

(* MSG_MEMORYSCRIPT_START: refused unless the flag says finished. *)
Begin(n) ==
    /\ current < MaxScripts
    /\ finish
    /\ cancel' = FALSE
    /\ current' = current + 1
    /\ announced' = [announced EXCEPT ![current'] = n]
    /\ thread' = [s \in Script |->
                    [thread[s] EXCEPT !.overtaken = @ \/ (Busy(s) /\ thread[s].at # "report")]]
    /\ UNCHANGED <<finish, received, calm>>

(* strcat, and the thread once the text is as long as announced.  When the  *)
(* thread cannot be created the script stays unfinished.                    *)
AppendLines(n) ==
    /\ received' = [received EXCEPT ![current] = @ + n]
    /\ \/ /\ received'[current] = announced[current]
          /\ thread' = [thread EXCEPT ![current].at = "sleep"]
       \/ /\ received'[current] = announced[current] => CreateFails
          /\ UNCHANGED thread

(* Bug seeded for the runs: the last piece leaves the flag as it is. *)
PieceKeepsFinish(n) ==
    /\ current # 0
    /\ received[current] + n <= announced[current]
    /\ IF cancel THEN UNCHANGED <<received, thread>> ELSE AppendLines(n)
    /\ UNCHANGED <<finish, cancel, current, announced, calm>>

(* MSG_MEMORYSCRIPT: n more lines, never more than the client announced. *)
Piece(n) ==
    /\ current # 0
    /\ received[current] + n <= announced[current]
    /\ finish' = cancel
    /\ IF cancel THEN UNCHANGED <<received, thread>> ELSE AppendLines(n)
    /\ UNCHANGED <<cancel, current, announced, calm>>

(* MSG_MEMORYSCRIPT_CANCEL: finished, whether or not a thread still runs. *)
Cancel ==
    /\ cancel' = TRUE
    /\ finish' = TRUE
    /\ calm' = FALSE
    /\ thread' = [s \in Script |->
                    IF Busy(s) /\ thread[s].at # "report"
                    THEN [thread[s] EXCEPT !.told = TRUE] ELSE thread[s]]
    /\ UNCHANGED <<current, announced, received>>

Handler == Cancel \/ \E n \in 1..MaxLines : Begin(n) \/ Piece(n)

-----------------------------------------------------------------------------
(* MemoryScript_DoWork.                                                     *)
Goes(s, place) == thread' = [thread EXCEPT ![s].at = place]

(* ScriptToLine, after sleep(10): it takes the object's text, whichever     *)
(* script that is by now, and then its length.                              *)
TakeText(s) == /\ thread[s].at = "sleep"
               /\ thread' = [thread EXCEPT ![s].at = "length", ![s].text = current]

TakeLength(s) ==
    /\ thread[s].at = "length"
    /\ thread' = [thread EXCEPT ![s].at = "parse", ![s].length = announced[current]]

(* A text that ends before the length gives no lines at all; one found      *)
(* cancelled gives the lines found so far.                                  *)
Found(s) == IF received[thread[s].text] < thread[s].length THEN {0}
            ELSE {thread[s].length}
FoundSoFar(s) == {n \in 0..MaxLines : n <= thread[s].length
                                      /\ n <= received[thread[s].text]}

Parse(s) ==
    /\ thread[s].at = "parse"
    /\ \E n \in (IF cancel THEN FoundSoFar(s) ELSE {}) \cup Found(s) :
         thread' = [thread EXCEPT ![s].at = "run", ![s].lines = n]

LinesSeen(s) == thread[s].ran + thread[s].passed

(* The loop over the lines: the flag first.  A line of two or three words   *)
(* is run, any other one is passed over and leaves bIsSuccess as it is; one *)
(* that lacks a word ends the loop.                                         *)
Run(s) ==
    /\ thread[s].at = "run"
    /\ \/ (LinesSeen(s) = thread[s].lines \/ cancel) /\ Goes(s, "choose")
       \/ /\ LinesSeen(s) < thread[s].lines /\ ~cancel
          /\ \/ thread' = [thread EXCEPT ![s].ran = @ + 1, ![s].success = TRUE]
             \/ thread' = [thread EXCEPT ![s].passed = @ + 1]
             \/ thread' = [thread EXCEPT ![s].at = "choose", ![s].success = FALSE]

(* Bug seeded for the runs: the result does not look at the flag. *)
ChooseUnchecked(s) ==
    /\ thread[s].at = "choose"
    /\ thread' = [thread EXCEPT ![s].at = "report",
                    ![s].result = IF thread[s].success THEN "0" ELSE "1"]

Choose(s) ==
    /\ thread[s].at = "choose"
    /\ thread' = [thread EXCEPT ![s].at = "report",
                    ![s].result = IF thread[s].success /\ ~cancel THEN "0" ELSE "1"]

(* SendData(MSG_MEMORYSCRIPT_FINISH), whatever comes of it. *)
Report(s) == thread[s].at = "report" /\ Goes(s, "reported")

ThreadStep(s) ==
    /\ TakeText(s) \/ TakeLength(s) \/ Parse(s) \/ Run(s) \/ Choose(s) \/ Report(s)
    /\ UNCHANGED <<finish, cancel, current, announced, received, calm>>

(* Bug seeded for the runs: a script that failed does not say it is over. *)
EndUnlessFailed(s) ==
    /\ thread[s].at = "reported"
    /\ finish' = (finish \/ thread[s].success)
    /\ Goes(s, "done")
    /\ UNCHANGED <<cancel, current, announced, received, calm>>

(* m_bIsMemoryScriptFinish = true; m_threadMemoryScript = 0 *)
End(s) ==
    /\ thread[s].at = "reported"
    /\ finish' = TRUE
    /\ Goes(s, "done")
    /\ UNCHANGED <<cancel, current, announced, received, calm>>

Next == Handler \/ \E s \in Script : ThreadStep(s) \/ End(s)

(* The scheduler runs the threads; SendData returns (ClientLink). *)
Spec == Init /\ [][Next]_vars /\ \A s \in Script : WF_vars(ThreadStep(s) \/ End(s))

-----------------------------------------------------------------------------
(* Types; a text never grows past the length announced for it. *)
TypeOK ==
    /\ finish \in BOOLEAN /\ cancel \in BOOLEAN /\ current \in 0..MaxScripts
    /\ calm \in BOOLEAN
    /\ announced \in [Script -> 0..MaxLines]
    /\ received \in [Script -> 0..MaxLines]
    /\ \A s \in Script : received[s] <= announced[s]
    /\ thread \in [Script ->
         [at : {"none", "sleep", "length", "parse", "run", "choose", "report",
                "reported", "done"},
          text : 0..MaxScripts, length : 0..MaxLines, lines : 0..MaxLines,
          ran : 0..MaxLines, passed : 0..MaxLines, success : BOOLEAN,
          result : {"none", "0", "1"}, told : BOOLEAN, overtaken : BOOLEAN]]

(* The result 0, "executed successfully" (CommonServer.cpp:738), is sent    *)
(* only for a script that nobody had cancelled, of which every line         *)
(* announced was run or passed over for its number of words, one at least   *)
(* was run, and none ended the loop, unless the next script was accepted    *)
(* while its thread still ran.                                              *)
Executed(s) == /\ thread[s].text = s /\ ~thread[s].told /\ thread[s].ran > 0
               /\ LinesSeen(s) = announced[s] /\ received[s] = announced[s]

SuccessMeansExecuted ==
    \A s \in Script : thread[s].result = "0" /\ ~thread[s].overtaken => Executed(s)

(* As long as nobody cancels, the flag "whether the script has finished     *)
(* executing" (CommonServer.h:36) is down while a thread may run lines.     *)
FinishMeansIdle == calm /\ finish => \A s \in Script : ~Busy(s)

(* Once a script's thread exists the next START is accepted in the end. *)
BusyEnds == \A s \in Script : Alive(s) ~> finish
=============================================================================

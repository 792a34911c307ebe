------------------------- MODULE MemoryScriptProofs -------------------------
(* For any number of scripts and lines, and for every interleaving of the   *)
(* handlers with the threads of old and new scripts: the result 0 is sent   *)
(* only for a script that was gone through whole, with a line run, and not  *)
(* cancelled; and the flag that lets the next script in is down while a     *)
(* thread may run lines.                                                    *)
EXTENDS MemoryScript, TLAPS

ThreadRecord ==
    [at : {"none", "sleep", "length", "parse", "run", "choose", "report",
           "reported", "done"},
     text : 0..MaxScripts, length : 0..MaxLines, lines : 0..MaxLines,
     ran : 0..MaxLines, passed : 0..MaxLines, success : BOOLEAN,
     result : {"none", "0", "1"}, told : BOOLEAN, overtaken : BOOLEAN]

(* The thread has not chosen its result yet. *)
Working(s) == thread[s].at \in {"sleep", "length", "parse", "run", "choose"}

(* While no other script is accepted, a working thread's script is the      *)
(* current one and a cancel since its creation shows in the flag; so what   *)
(* it takes is its own text and its own length, and if it is not cancelled  *)
(* it finds every line, and gets to the end successfully only past them.    *)
OwnScript(s) ==
    Working(s) /\ ~thread[s].overtaken =>
       /\ s = current
       /\ cancel <=> thread[s].told
       /\ thread[s].at # "sleep" => thread[s].text = s
       /\ thread[s].at \notin {"sleep", "length"} => thread[s].length = announced[s]
       /\ thread[s].at \in {"run", "choose"} /\ ~cancel =>
             thread[s].lines = announced[s]
       /\ thread[s].at = "choose" /\ thread[s].success /\ ~cancel =>
             LinesSeen(s) = thread[s].lines

(* A thread is created for a complete script, once, chooses once, and sees  *)
(* no line twice.                                                           *)
CreatedOnce(s) ==
    /\ thread[s].at \in {"none", "sleep", "length", "parse"} =>
          LinesSeen(s) = 0 /\ ~thread[s].success
    /\ thread[s].at = "run" => LinesSeen(s) <= thread[s].lines
    /\ thread[s].success => thread[s].ran > 0
    /\ thread[s].at # "none" => s <= current /\ received[s] = announced[s]
    /\ thread[s].at = "none" => ~thread[s].told
    /\ thread[s].at = "none" \/ Working(s) => thread[s].result = "none"

Succeeded(s) == thread[s].result = "0" /\ ~thread[s].overtaken => Executed(s)

ThreadInv(s) == OwnScript(s) /\ CreatedOnce(s) /\ Succeeded(s)

(* Until the first cancel at most one thread lives, that of the current     *)
(* script, and the flag is down from its creation to its end.               *)
OneAtATime ==
    calm => ~cancel /\ \A s \in Script : Alive(s) => ~finish /\ s = current

NothingAhead == \A s \in Script : s > current => received[s] = 0

IndInv == /\ TypeOK /\ OneAtATime /\ NothingAhead
          /\ \A s \in Script : ThreadInv(s)

LEMMA InitIndInv == Init => IndInv
<1> SUFFICES ASSUME Init PROVE IndInv
  OBVIOUS
<1>1. NoThread \in ThreadRecord
  BY ScriptAssumption DEF NoThread, ThreadRecord
<1>z. 0 \in 0..MaxLines /\ 0 \in 0..MaxScripts /\ 0 <= 0
  BY ScriptAssumption
<1>2. TypeOK
  BY <1>1, <1>z DEF Init, TypeOK, ThreadRecord
<1>3. \A s \in Script : thread[s] = NoThread
  BY DEF Init
<1> QED
  BY <1>2, <1>3 DEF Init, IndInv, OneAtATime, NothingAhead, ThreadInv, OwnScript,
     CreatedOnce, Succeeded, Working, Alive, Busy, NoThread, LinesSeen

(* What one step of a script's thread has to show: the rest stays as it was. *)
LEMMA OneThread ==
  ASSUME IndInv, NEW s \in Script, NEW r \in ThreadRecord,
         thread' = [thread EXCEPT ![s] = r],
         UNCHANGED <<cancel, current, announced, received, calm>>,
         ThreadInv(s)',
         Alive(s), finish' \in BOOLEAN, finish' = finish \/ r.at = "done"
  PROVE  IndInv'
<1>0. TypeOK /\ thread \in [Script -> ThreadRecord]
  BY DEF IndInv, TypeOK, ThreadRecord
<1>1. thread' \in [Script -> ThreadRecord] /\ thread'[s] = r
      /\ \A x \in Script \ {s} : thread'[x] = thread[x]
  BY <1>0
<1>2. TypeOK'
  BY <1>0, <1>1 DEF TypeOK, ThreadRecord
<1>3. \A x \in Script : ThreadInv(x)'
  BY <1>1 DEF LinesSeen, IndInv, ThreadInv, OwnScript, CreatedOnce, Succeeded, Executed, LinesSeen, Working
<1>4. OneAtATime'
  BY <1>1 DEF IndInv, OneAtATime, Alive, Busy
<1>5. NothingAhead'
  BY DEF IndInv, NothingAhead
<1> QED
  BY <1>2, <1>3, <1>4, <1>5 DEF IndInv

LEMMA TakeTextInv ==
  ASSUME IndInv, NEW s \in Script, TakeText(s),
         UNCHANGED <<finish, cancel, current, announced, received, calm>>
  PROVE  IndInv'
<1>0. thread \in [Script -> ThreadRecord] /\ thread[s] \in ThreadRecord /\ ThreadInv(s)
      /\ finish \in BOOLEAN
      /\ current \in 0..MaxScripts
  BY DEF IndInv, TypeOK, ThreadRecord
<1> DEFINE r == [thread[s] EXCEPT !.at = "length", !.text = current]
<1>1. thread' = [thread EXCEPT ![s] = r] /\ thread[s].at = "sleep"
  BY <1>0 DEF TakeText
<1>2. r \in ThreadRecord
  BY <1>0 DEF ThreadRecord
<1>3. /\ r.at = "length" /\ r.text = current /\ r.told = thread[s].told
      /\ r.ran = thread[s].ran /\ r.passed = thread[s].passed /\ r.success = thread[s].success
      /\ r.overtaken = thread[s].overtaken /\ r.result = thread[s].result
  BY <1>0 DEF ThreadRecord
<1>4. thread'[s] = r
  BY <1>0, <1>1
<1> HIDE DEF r
<1>5. ThreadInv(s)'
  BY <1>0, <1>1, <1>3, <1>4 DEF LinesSeen, ThreadInv, OwnScript, CreatedOnce, Succeeded, Working
<1>6. Alive(s)
  BY <1>1 DEF Alive, Busy
<1> QED
  BY <1>0, <1>1, <1>2, <1>5, <1>6, OneThread

LEMMA TakeLengthInv ==
  ASSUME IndInv, NEW s \in Script, TakeLength(s),
         UNCHANGED <<finish, cancel, current, announced, received, calm>>
  PROVE  IndInv'
<1>0. /\ thread \in [Script -> ThreadRecord] /\ thread[s] \in ThreadRecord /\ ThreadInv(s)
      /\ finish \in BOOLEAN
      /\ current \in 0..MaxScripts /\ announced \in [Script -> 0..MaxLines]
  BY DEF IndInv, TypeOK, ThreadRecord
<1> DEFINE r == [thread[s] EXCEPT !.at = "parse", !.length = announced[current]]
<1>1. thread' = [thread EXCEPT ![s] = r] /\ thread[s].at = "length"
  BY <1>0 DEF TakeLength
<1>2. announced[current] \in 0..MaxLines
  BY <1>0, <1>1 DEF LinesSeen, ThreadInv, CreatedOnce, Script
<1>3. r \in ThreadRecord
  BY <1>0, <1>2 DEF ThreadRecord
<1>4. /\ r.at = "parse" /\ r.length = announced[current] /\ r.told = thread[s].told
      /\ r.ran = thread[s].ran /\ r.passed = thread[s].passed /\ r.success = thread[s].success
      /\ r.text = thread[s].text
      /\ r.overtaken = thread[s].overtaken /\ r.result = thread[s].result
  BY <1>0 DEF ThreadRecord
<1>5. thread'[s] = r
  BY <1>0, <1>1
<1> HIDE DEF r
<1>6. ThreadInv(s)'
  BY <1>0, <1>1, <1>4, <1>5 DEF LinesSeen, ThreadInv, OwnScript, CreatedOnce, Succeeded, Working
<1>7. Alive(s)
  BY <1>1 DEF Alive, Busy
<1> QED
  BY <1>0, <1>1, <1>3, <1>6, <1>7, OneThread

(* An uncancelled thread finds every line: its script is complete. *)
LEMMA ParseInv ==
  ASSUME IndInv, NEW s \in Script, Parse(s),
         UNCHANGED <<finish, cancel, current, announced, received, calm>>
  PROVE  IndInv'
<1>0. /\ thread \in [Script -> ThreadRecord] /\ thread[s] \in ThreadRecord /\ ThreadInv(s)
      /\ finish \in BOOLEAN
      /\ received \in [Script -> 0..MaxLines] /\ announced \in [Script -> 0..MaxLines]
  BY DEF IndInv, TypeOK, ThreadRecord
<1>1. PICK n \in (IF cancel THEN FoundSoFar(s) ELSE {}) \cup Found(s) :
         thread' = [thread EXCEPT ![s].at = "run", ![s].lines = n]
  BY DEF Parse
<1> DEFINE r == [thread[s] EXCEPT !.at = "run", !.lines = n]
<1>2. thread' = [thread EXCEPT ![s] = r] /\ thread[s].at = "parse"
  BY <1>0, <1>1 DEF Parse
<1>3. n \in 0..MaxLines
  BY <1>0, <1>1, ScriptAssumption DEF Found, FoundSoFar, ThreadRecord
<1>4. r \in ThreadRecord
  BY <1>0, <1>3 DEF ThreadRecord
<1>5. /\ r.at = "run" /\ r.lines = n /\ r.told = thread[s].told
      /\ r.ran = thread[s].ran /\ r.passed = thread[s].passed /\ r.success = thread[s].success
      /\ r.text = thread[s].text /\ r.length = thread[s].length
      /\ r.overtaken = thread[s].overtaken /\ r.result = thread[s].result
  BY <1>0 DEF ThreadRecord
<1>6. thread'[s] = r
  BY <1>0, <1>2
<1>7. ~cancel /\ ~thread[s].overtaken => n = announced[s]
  <2> SUFFICES ASSUME ~cancel, ~thread[s].overtaken PROVE n = announced[s]
    OBVIOUS
  <2>1. /\ thread[s].text = s /\ thread[s].length = announced[s]
        /\ received[s] = announced[s]
    BY <1>0, <1>2 DEF LinesSeen, ThreadInv, OwnScript, CreatedOnce, Working
  <2>2. ~ (received[s] < announced[s])
    BY <1>0, <2>1
  <2> QED
    BY <1>1, <2>1, <2>2 DEF Found
<1>s. thread[s].ran + thread[s].passed = 0 /\ ~thread[s].success /\ 0 <= n
  BY <1>0, <1>2, <1>3 DEF LinesSeen, ThreadInv, CreatedOnce
<1> HIDE DEF r
<1>8. ThreadInv(s)'
  BY <1>0, <1>2, <1>5, <1>6, <1>7, <1>s DEF LinesSeen, ThreadInv, OwnScript, CreatedOnce, Succeeded, Working
<1>9. Alive(s)
  BY <1>2 DEF Alive, Busy
<1> QED
  BY <1>0, <1>2, <1>4, <1>8, <1>9, OneThread

(* Running a line, passing over one, leaving the loop. *)
LEMMA RunInv ==
  ASSUME IndInv, NEW s \in Script, Run(s),
         UNCHANGED <<finish, cancel, current, announced, received, calm>>
  PROVE  IndInv'
<1>0. thread \in [Script -> ThreadRecord] /\ thread[s] \in ThreadRecord /\ ThreadInv(s)
      /\ finish \in BOOLEAN
      /\ thread[s].at = "run"
  BY DEF IndInv, TypeOK, ThreadRecord, Run
<1>1. Alive(s)
  BY <1>0 DEF Alive, Busy
<1> DEFINE R(place, n, p, ok) == [thread[s] EXCEPT !.at = place, !.ran = n,
                                                   !.passed = p, !.success = ok]
           m == thread[s].ran
           q == thread[s].passed
           f == thread[s].success
<1>2. ASSUME NEW place \in {"run", "choose"}, NEW n \in 0..MaxLines,
             NEW p \in 0..MaxLines, NEW ok \in BOOLEAN,
             thread' = [thread EXCEPT ![s] = R(place, n, p, ok)],
             n + p <= thread[s].lines, ok => n > 0,
             (place = "choose" /\ ok /\ ~cancel) => n + p = thread[s].lines
      PROVE  IndInv'
  <2> DEFINE r == R(place, n, p, ok)
  <2>1. r \in ThreadRecord
    BY <1>0 DEF ThreadRecord
  <2>2. /\ r.at = place /\ r.ran = n /\ r.passed = p /\ r.success = ok
        /\ r.told = thread[s].told
        /\ r.text = thread[s].text /\ r.length = thread[s].length
        /\ r.lines = thread[s].lines
        /\ r.overtaken = thread[s].overtaken /\ r.result = thread[s].result
    BY <1>0 DEF ThreadRecord
  <2>3. thread'[s] = r
    BY <1>0, <1>2
  <2>4. thread' = [thread EXCEPT ![s] = r]
    BY <1>2
  <2> HIDE DEF r
  <2>5. ThreadInv(s)'
    BY <1>0, <1>2, <2>2, <2>3
    DEF LinesSeen, ThreadInv, OwnScript, CreatedOnce, Succeeded, Working
  <2> QED
    BY <1>0, <1>1, <2>1, <2>4, <2>5, OneThread
<1>3. /\ m \in 0..MaxLines /\ q \in 0..MaxLines /\ f \in BOOLEAN
      /\ thread[s].lines \in 0..MaxLines /\ LinesSeen(s) = m + q
      /\ m + q <= thread[s].lines
      /\ m + q < thread[s].lines => m + 1 \in 0..MaxLines /\ q + 1 \in 0..MaxLines
  BY <1>0, ScriptAssumption DEF ThreadRecord, LinesSeen, ThreadInv, CreatedOnce
<1>f. f => m > 0
  BY <1>0 DEF ThreadInv, CreatedOnce
<1>4. CASE (LinesSeen(s) = thread[s].lines \/ cancel) /\ Goes(s, "choose")
  <2>1. thread' = [thread EXCEPT ![s] = R("choose", m, q, f)]
    BY <1>0, <1>4 DEF Goes, ThreadRecord
  <2> QED
    BY <1>2, <1>3, <1>f, <1>4, <2>1
<1>5. CASE /\ LinesSeen(s) < thread[s].lines
           /\ thread' = [thread EXCEPT ![s].ran = @ + 1, ![s].success = TRUE]
  <2>1. thread' = [thread EXCEPT ![s] = R("run", m + 1, q, TRUE)]
    BY <1>0, <1>5 DEF ThreadRecord
  <2>2. m + 1 \in 0..MaxLines /\ (m + 1) + q <= thread[s].lines /\ m + 1 > 0
    BY <1>3, <1>5
  <2> QED
    BY <1>2, <1>3, <1>5, <2>1, <2>2
<1>6. CASE LinesSeen(s) < thread[s].lines /\ thread' = [thread EXCEPT ![s].passed = @ + 1]
  <2>1. thread' = [thread EXCEPT ![s] = R("run", m, q + 1, f)]
    BY <1>0, <1>6 DEF ThreadRecord
  <2>2. q + 1 \in 0..MaxLines /\ m + (q + 1) <= thread[s].lines
    BY <1>3, <1>6
  <2> QED
    BY <1>2, <1>3, <1>f, <2>1, <2>2
<1>7. CASE thread' = [thread EXCEPT ![s].at = "choose", ![s].success = FALSE]
  <2>1. thread' = [thread EXCEPT ![s] = R("choose", m, q, FALSE)]
    BY <1>0, <1>7 DEF ThreadRecord
  <2> QED
    BY <1>2, <1>3, <2>1
<1> QED
  BY <1>4, <1>5, <1>6, <1>7 DEF Run

(* Success and no cancel: every line of this script was seen, one was run. *)
LEMMA ChooseInv ==
  ASSUME IndInv, NEW s \in Script, Choose(s),
         UNCHANGED <<finish, cancel, current, announced, received, calm>>
  PROVE  IndInv'
<1>0. thread \in [Script -> ThreadRecord] /\ thread[s] \in ThreadRecord /\ ThreadInv(s)
      /\ finish \in BOOLEAN
  BY DEF IndInv, TypeOK, ThreadRecord
<1> DEFINE res == IF thread[s].success /\ ~cancel THEN "0" ELSE "1"
           r == [thread[s] EXCEPT !.at = "report", !.result = res]
<1>1. thread' = [thread EXCEPT ![s] = r] /\ thread[s].at = "choose"
  BY <1>0 DEF Choose
<1>2. r \in ThreadRecord
  BY <1>0 DEF ThreadRecord
<1>3. /\ r.at = "report" /\ r.told = thread[s].told /\ r.ran = thread[s].ran
      /\ r.passed = thread[s].passed /\ r.success = thread[s].success
      /\ r.result = "0" => thread[s].success /\ ~cancel
      /\ r.text = thread[s].text /\ r.overtaken = thread[s].overtaken
  BY <1>0 DEF ThreadRecord
<1>4. thread'[s] = r
  BY <1>0, <1>1
<1> HIDE DEF r
<1>5. ThreadInv(s)'
  BY <1>0, <1>1, <1>3, <1>4
  DEF LinesSeen, ThreadInv, OwnScript, CreatedOnce, Succeeded, Executed, LinesSeen, Working
<1>6. Alive(s)
  BY <1>1 DEF Alive, Busy
<1> QED
  BY <1>0, <1>1, <1>2, <1>5, <1>6, OneThread

(* Reporting and ending change nothing of what was chosen. *)
LEMMA EndsInv ==
  ASSUME IndInv, NEW s \in Script, 
         \/ Report(s) /\ UNCHANGED finish
         \/ End(s),
         UNCHANGED <<cancel, current, announced, received, calm>>
  PROVE  IndInv'
<1>0. thread \in [Script -> ThreadRecord] /\ thread[s] \in ThreadRecord /\ ThreadInv(s)
      /\ finish \in BOOLEAN
  BY DEF IndInv, TypeOK, ThreadRecord
<1>1. PICK place \in {"reported", "done"} :
         /\ thread' = [thread EXCEPT ![s].at = place]
         /\ thread[s].at \in {"report", "reported"}
         /\ finish' \in BOOLEAN /\ (finish' = finish \/ place = "done")
  <2>1. CASE Report(s) /\ UNCHANGED finish
    BY <1>0, <2>1 DEF Report, Goes
  <2>2. CASE End(s)
    BY <2>2 DEF End, Goes
  <2> QED
    BY <2>1, <2>2
<1> DEFINE r == [thread[s] EXCEPT !.at = place]
<1>2. thread' = [thread EXCEPT ![s] = r]
  BY <1>0, <1>1
<1>3. r \in ThreadRecord
  BY <1>0 DEF ThreadRecord
<1>4. /\ r.at = place /\ r.told = thread[s].told /\ r.ran = thread[s].ran
      /\ r.passed = thread[s].passed /\ r.success = thread[s].success
      /\ r.result = thread[s].result
      /\ r.text = thread[s].text /\ r.overtaken = thread[s].overtaken
  BY <1>0 DEF ThreadRecord
<1>5. thread'[s] = r
  BY <1>0, <1>2
<1> HIDE DEF r
<1>6. ThreadInv(s)'
  BY <1>0, <1>1, <1>4, <1>5
  DEF LinesSeen, ThreadInv, OwnScript, CreatedOnce, Succeeded, Executed, LinesSeen, Working
<1>7. Alive(s)
  BY <1>1 DEF Alive, Busy
<1> QED
  BY <1>0, <1>1, <1>2, <1>3, <1>4, <1>6, <1>7, OneThread

(* START overtakes every thread that works: only the flag kept it from it.  *)
LEMMA BeginInv ==
  ASSUME IndInv, NEW n \in 1..MaxLines, Begin(n)
  PROVE  IndInv'
<1> USE ScriptAssumption
<1>0. /\ TypeOK /\ thread \in [Script -> ThreadRecord] /\ current < MaxScripts
      /\ current \in 0..MaxScripts /\ announced \in [Script -> 0..MaxLines]
      /\ received \in [Script -> 0..MaxLines]
  BY DEF IndInv, TypeOK, ThreadRecord, Begin
<1>1. /\ current' = current + 1 /\ current + 1 \in Script /\ current' \in 0..MaxScripts
      /\ UNCHANGED <<finish, received, calm>> /\ cancel' = FALSE /\ finish
      /\ announced' = [announced EXCEPT ![current + 1] = n]
  BY <1>0 DEF Begin, Script
<1>2. \A x \in Script :
        /\ thread[x] \in ThreadRecord
        /\ thread'[x] = [thread[x] EXCEPT !.overtaken =
                           thread[x].overtaken \/ (Busy(x) /\ thread[x].at # "report")]
  BY <1>0 DEF Begin
<1>3. \A x \in Script :
        /\ thread'[x] \in ThreadRecord
        /\ thread'[x].at = thread[x].at /\ thread'[x].text = thread[x].text
        /\ thread'[x].told = thread[x].told /\ thread'[x].ran = thread[x].ran
        /\ thread'[x].passed = thread[x].passed /\ thread'[x].success = thread[x].success
        /\ thread'[x].lines = thread[x].lines
        /\ thread'[x].result = thread[x].result
        /\ thread'[x].overtaken = (thread[x].overtaken \/ (Busy(x) /\ thread[x].at # "report"))
  <2> SUFFICES ASSUME NEW x \in Script
               PROVE  LET b == thread[x].overtaken \/ (Busy(x) /\ thread[x].at # "report")
                      IN  /\ thread'[x] \in ThreadRecord
                          /\ thread'[x].at = thread[x].at /\ thread'[x].text = thread[x].text
                          /\ thread'[x].told = thread[x].told /\ thread'[x].ran = thread[x].ran
                          /\ thread'[x].passed = thread[x].passed
                          /\ thread'[x].success = thread[x].success
                          /\ thread'[x].lines = thread[x].lines
                          /\ thread'[x].result = thread[x].result
                          /\ thread'[x].overtaken = b
    OBVIOUS
  <2>1. PICK b \in BOOLEAN :
           /\ b = (thread[x].overtaken \/ (Busy(x) /\ thread[x].at # "report"))
           /\ thread'[x] = [thread[x] EXCEPT !.overtaken = b]
    BY <1>2 DEF ThreadRecord
  <2> QED
    BY <1>2, <2>1 DEF ThreadRecord
<1>4. thread' \in [Script -> ThreadRecord]
  <2>1. thread' = [x \in Script |-> thread'[x]]
    BY DEF Begin
  <2> QED
    BY <1>3, <2>1
<1>5. /\ announced' \in [Script -> 0..MaxLines]
      /\ \A x \in Script : x <= current => announced'[x] = announced[x]
      /\ \A x \in Script : received[x] <= announced'[x]
  <2>1. received[current + 1] = 0
    BY <1>0, <1>1 DEF IndInv, NothingAhead
  <2>2. \A x \in Script : received[x] <= announced[x]
    BY <1>0 DEF TypeOK
  <2>3. n \in 0..MaxLines /\ 0 <= n
    OBVIOUS
  <2>4. announced' \in [Script -> 0..MaxLines] /\ announced'[current + 1] = n
        /\ \A x \in Script : x # current + 1 => announced'[x] = announced[x]
    BY <1>0, <1>1, <2>3
  <2>5. \A x \in Script : x <= current => x # current + 1
    BY <1>0 DEF Script
  <2>6. \A x \in Script : received[x] <= announced'[x]
    BY <2>1, <2>2, <2>3, <2>4
  <2> QED
    BY <2>4, <2>5, <2>6
<1>6. TypeOK'
  BY <1>0, <1>1, <1>4, <1>5 DEF TypeOK, ThreadRecord
<1>7. ASSUME NEW x \in Script PROVE ThreadInv(x)'
  <2>1. ThreadInv(x) /\ (x <= current => x <= current' /\ x # current')
    BY <1>0, <1>1 DEF IndInv, Script
  <2>2. OwnScript(x)'
    BY <1>3 DEF OwnScript, Working, Busy
  <2>3. CreatedOnce(x)'
    BY <1>1, <1>3, <1>5, <2>1 DEF LinesSeen, ThreadInv, CreatedOnce, Working
  <2>4. Succeeded(x)'
    BY <1>1, <1>3, <1>5, <2>1 DEF LinesSeen, ThreadInv, CreatedOnce, Succeeded, Executed, LinesSeen, Working
  <2> QED
    BY <2>2, <2>3, <2>4 DEF ThreadInv
<1>8. OneAtATime'
  <2>1. calm => \A x \in Script : ~Alive(x)
    BY <1>1 DEF IndInv, OneAtATime
  <2>2. \A x \in Script : Alive(x)' => Alive(x)
    BY <1>3 DEF Alive, Busy
  <2> QED
    BY <1>1, <2>1, <2>2 DEF OneAtATime
<1>9. NothingAhead'
  BY <1>0, <1>1 DEF IndInv, NothingAhead, Script
<1> QED
  BY <1>6, <1>7, <1>8, <1>9 DEF IndInv

(* A piece only goes to a script that is not complete, so to one without a  *)
(* thread; the last piece of it creates the thread.                         *)
LEMMA PieceInv ==
  ASSUME IndInv, NEW n \in 1..MaxLines, Piece(n)
  PROVE  IndInv'
<1> USE ScriptAssumption
<1>0. /\ TypeOK /\ thread \in [Script -> ThreadRecord] /\ current \in Script
      /\ announced \in [Script -> 0..MaxLines] /\ received \in [Script -> 0..MaxLines]
      /\ received[current] + n <= announced[current] /\ cancel \in BOOLEAN
      /\ \A x \in Script : received[x] <= announced[x]
      /\ \A x \in Script : ThreadInv(x)
  <2>1. TypeOK /\ \A x \in Script : ThreadInv(x)
    BY DEF IndInv
  <2>2. current \in 0..MaxScripts /\ current # 0
    BY <2>1 DEF TypeOK, Piece
  <2>3. current \in Script
    BY <2>2 DEF Script
  <2> QED
    BY <2>1, <2>3 DEF TypeOK, ThreadRecord, Piece
<1>1. UNCHANGED <<cancel, current, announced, calm>> /\ finish' = cancel
  BY DEF Piece
<1>2. thread[current].at = "none" /\ thread[current] \in ThreadRecord
  BY <1>0 DEF LinesSeen, ThreadInv, CreatedOnce
<1>3. PICK at \in {"none", "sleep"} :
         /\ thread' = [thread EXCEPT ![current] = [thread[current] EXCEPT !.at = at]]
         /\ received' = received \/ received' = [received EXCEPT ![current] = @ + n]
         /\ at = "sleep" => ~cancel /\ received'[current] = announced[current]
  <2>1. CASE cancel
    <3>1. thread[current] = [thread[current] EXCEPT !.at = "none"]
      BY <1>2 DEF ThreadRecord
    <3>2. thread' = [thread EXCEPT ![current] = [thread[current] EXCEPT !.at = "none"]]
      BY <1>0, <2>1, <3>1 DEF Piece
    <3> QED
      BY <2>1, <3>2 DEF Piece
  <2>2. CASE ~cancel
    <3>1. thread[current] = [thread[current] EXCEPT !.at = "none"]
      BY <1>2 DEF ThreadRecord
    <3>2. received' = [received EXCEPT ![current] = @ + n]
      BY <2>2 DEF Piece, AppendLines
    <3>3. CASE received'[current] = announced[current] /\ thread' = [thread EXCEPT ![current].at = "sleep"]
      BY <1>0, <2>2, <3>2, <3>3
    <3>4. CASE thread' = thread
      BY <1>0, <3>1, <3>2, <3>4
    <3> QED
      BY <2>2, <3>3, <3>4 DEF Piece, AppendLines
  <2> QED
    BY <2>1, <2>2
<1>4. /\ received' \in [Script -> 0..MaxLines]
      /\ \A x \in Script : received'[x] <= announced[x]
      /\ \A x \in Script \ {current} : received'[x] = received[x]
  <2>1. received[current] + n \in 0..MaxLines
    BY <1>0
  <2> QED
    BY <1>0, <1>3, <2>1
<1> DEFINE r == [thread[current] EXCEPT !.at = at]
<1>5. /\ r \in ThreadRecord /\ r.at = at /\ r.told = thread[current].told
      /\ r.ran = thread[current].ran /\ r.passed = thread[current].passed
      /\ r.success = thread[current].success
      /\ r.result = thread[current].result /\ r.overtaken = thread[current].overtaken
  BY <1>2 DEF ThreadRecord
<1>6. /\ thread' \in [Script -> ThreadRecord] /\ thread'[current] = r
      /\ \A x \in Script \ {current} : thread'[x] = thread[x]
  BY <1>0, <1>3, <1>5
<1> HIDE DEF r
<1>7. TypeOK'
  BY <1>0, <1>1, <1>4, <1>6 DEF TypeOK, ThreadRecord
<1>8. ThreadInv(current)'
  <2>1. ThreadInv(current) /\ current <= current
    BY <1>0 DEF Script
  <2> QED
    BY <1>1, <1>2, <1>3, <1>5, <1>6, <2>1
    DEF LinesSeen, ThreadInv, OwnScript, CreatedOnce, Succeeded, Working
<1>9. \A x \in Script \ {current} : ThreadInv(x)'
  BY <1>0, <1>1, <1>4, <1>6 DEF LinesSeen, ThreadInv, OwnScript, CreatedOnce, Succeeded, Executed, LinesSeen, Working
<1>10. OneAtATime'
  BY <1>1, <1>6 DEF IndInv, OneAtATime, Alive, Busy
<1>11. NothingAhead'
  BY <1>0, <1>1, <1>4 DEF IndInv, NothingAhead, Script
<1>12. \A x \in Script : ThreadInv(x)'
  BY <1>1, <1>8, <1>9
<1> QED
  BY <1>7, <1>10, <1>11, <1>12 DEF IndInv

(* CANCEL tells every thread that works. *)
LEMMA CancelInv ==
  ASSUME IndInv, Cancel
  PROVE  IndInv'
<1>0. TypeOK /\ thread \in [Script -> ThreadRecord] /\ \A x \in Script : ThreadInv(x)
  BY DEF IndInv, TypeOK, ThreadRecord
<1>1. /\ UNCHANGED <<current, announced, received>> /\ cancel' = TRUE
      /\ finish' = TRUE /\ calm' = FALSE
  BY DEF Cancel
<1>2. \A x \in Script :
        /\ thread[x] \in ThreadRecord
        /\ thread'[x] = IF Busy(x) /\ thread[x].at # "report"
                        THEN [thread[x] EXCEPT !.told = TRUE] ELSE thread[x]
  BY <1>0 DEF Cancel
<1>3. \A x \in Script :
        /\ thread'[x] \in ThreadRecord
        /\ thread'[x].at = thread[x].at /\ thread'[x].text = thread[x].text
        /\ thread'[x].length = thread[x].length
        /\ thread'[x].lines = thread[x].lines /\ thread'[x].ran = thread[x].ran
        /\ thread'[x].passed = thread[x].passed /\ thread'[x].success = thread[x].success
        /\ thread'[x].result = thread[x].result /\ thread'[x].overtaken = thread[x].overtaken
        /\ thread'[x].told = IF Working(x) THEN TRUE ELSE thread[x].told
  <2>1. \A x \in Script : Busy(x) /\ thread[x].at # "report" <=> Working(x)
    BY <1>2 DEF ThreadRecord, Working, Busy
  <2> SUFFICES ASSUME NEW x \in Script
               PROVE  /\ thread'[x] \in ThreadRecord
                      /\ thread'[x].at = thread[x].at /\ thread'[x].text = thread[x].text
                      /\ thread'[x].length = thread[x].length
                      /\ thread'[x].lines = thread[x].lines /\ thread'[x].ran = thread[x].ran
          /\ thread'[x].passed = thread[x].passed /\ thread'[x].success = thread[x].success
                      /\ thread'[x].passed = thread[x].passed /\ thread'[x].success = thread[x].success
        /\ thread'[x].passed = thread[x].passed /\ thread'[x].success = thread[x].success
                      /\ thread'[x].result = thread[x].result
                      /\ thread'[x].overtaken = thread[x].overtaken
                      /\ thread'[x].told = IF Working(x) THEN TRUE ELSE thread[x].told
    OBVIOUS
  <2>2. CASE Working(x)
    <3>1. thread[x] \in ThreadRecord /\ thread'[x] = [thread[x] EXCEPT !.told = TRUE]
      BY <1>2, <2>1, <2>2
    <3>2. /\ thread'[x] \in ThreadRecord
          /\ thread'[x].at = thread[x].at /\ thread'[x].text = thread[x].text
          /\ thread'[x].length = thread[x].length
          /\ thread'[x].lines = thread[x].lines /\ thread'[x].ran = thread[x].ran
          /\ thread'[x].passed = thread[x].passed /\ thread'[x].success = thread[x].success
        /\ thread'[x].passed = thread[x].passed /\ thread'[x].success = thread[x].success
          /\ thread'[x].result = thread[x].result
          /\ thread'[x].overtaken = thread[x].overtaken
          /\ thread'[x].told
      BY <3>1 DEF ThreadRecord
    <3>3. thread'[x].told \in BOOLEAN
      BY <3>2 DEF ThreadRecord
    <3> QED
      BY <2>2, <3>2, <3>3
  <2>3. CASE ~Working(x)
    BY <1>2, <2>1, <2>3
  <2> QED
    BY <2>2, <2>3
<1>4. thread' \in [Script -> ThreadRecord]
  <2>1. thread' = [x \in Script |-> thread'[x]]
    BY DEF Cancel
  <2> QED
    BY <1>3, <2>1
<1>5. TypeOK'
  BY <1>0, <1>1, <1>4 DEF TypeOK, ThreadRecord
<1>6. ASSUME NEW x \in Script PROVE ThreadInv(x)'
  <2>1. ThreadInv(x)
    BY <1>0
  <2>2. OwnScript(x)'
    BY <1>1, <1>3, <2>1 DEF LinesSeen, ThreadInv, OwnScript, Working
  <2>3. CreatedOnce(x)'
    BY <1>1, <1>3, <2>1 DEF LinesSeen, ThreadInv, CreatedOnce, Working
  <2>4. Succeeded(x)'
    BY <1>1, <1>3, <2>1 DEF LinesSeen, ThreadInv, CreatedOnce, Succeeded, Executed, LinesSeen, Working
  <2> QED
    BY <2>2, <2>3, <2>4 DEF ThreadInv
<1> QED
  BY <1>1, <1>5, <1>6 DEF IndInv, OneAtATime, NothingAhead

(* IndInv is inductive: the invariant behind every theorem below. *)
LEMMA NextIndInv == IndInv /\ [Next]_vars => IndInv'
<1>1. ASSUME IndInv, NEW s \in Script, ThreadStep(s) PROVE IndInv'
  BY <1>1, TakeTextInv, TakeLengthInv, ParseInv, RunInv, ChooseInv, EndsInv DEF ThreadStep
<1>2. ASSUME IndInv, NEW s \in Script, End(s) PROVE IndInv'
  BY <1>2, EndsInv DEF End
<1>3. ASSUME IndInv, Handler PROVE IndInv'
  BY <1>3, CancelInv, BeginInv, PieceInv DEF Handler
<1>4. ASSUME IndInv, UNCHANGED vars PROVE IndInv'
  BY <1>4 DEF vars, IndInv, TypeOK, OneAtATime, NothingAhead, ThreadInv, OwnScript,
     CreatedOnce, Succeeded, Executed, LinesSeen, Working, Alive, Busy
<1> QED
  BY <1>1, <1>2, <1>3, <1>4 DEF Next

LEMMA SpecIndInv == Spec => []IndInv
BY InitIndInv, NextIndInv, PTL DEF Spec

(* The flags, the texts and the threads keep their types; no text grows     *)
(* past the length announced for it, and no thread past the last line.      *)
THEOREM TypeCorrect == Spec => []TypeOK
<1>1. IndInv => TypeOK
  BY DEF IndInv
<1> QED
  BY <1>1, SpecIndInv, PTL

(* The result 0 is sent for a script that was not cancelled, of which every *)
(* line was run or passed over and one at least was run, unless the next    *)
(* script was accepted while its thread still ran.                          *)
THEOREM SuccessIsEarned == Spec => []SuccessMeansExecuted
<1>1. IndInv => SuccessMeansExecuted
  BY DEF IndInv, ThreadInv, Succeeded, SuccessMeansExecuted
<1> QED
  BY <1>1, SpecIndInv, PTL

(* Without a cancel the flag is down while a thread may run lines: START    *)
(* never accepts a second script over a running one.                        *)
THEOREM FlagGuardsTheScript == Spec => []FinishMeansIdle
<1>1. IndInv => FinishMeansIdle
  BY DEF IndInv, OneAtATime, FinishMeansIdle, Alive
<1> QED
  BY <1>1, SpecIndInv, PTL
=============================================================================

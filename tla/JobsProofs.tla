----------------------------- MODULE JobsProofs ------------------------------
(* For any number of jobs and blocks: the fields keep their types, a job's  *)
(* thread reads its own request, a cancelled job sends at most one more     *)
(* block, and a download or command nobody cancelled is sent whole.         *)
EXTENDS Jobs, SequenceTheorems, TLAPS

(* A handler that waits has a job to start. *)
Types == TypeOK /\ (exec # "ready" => started < MaxJobs)

LEMMA InitTypes == Init => Types
BY JobsAssumption DEF Init, Types, TypeOK, NoJob, JobRecord, Place, Kind, Job

(* What the client got stays a sequence of blocks and ends. *)
LEMMA GotType ==
    ASSUME TypeOK, NEW j \in Job, NEW what \in {"block", "end"}
    PROVE  Got(j, what) \in Seq({"block", "end"}) /\ After(j) \in 0..2
<1>1. job[j] \in JobRecord
  BY DEF TypeOK
<1>2. job[j].got \in Seq({"block", "end"}) /\ job[j].after \in 0..2
  BY <1>1 DEF JobRecord
<1>3. Append(job[j].got, what) \in Seq({"block", "end"})
  BY <1>2
<1> QED BY <1>2, <1>3 DEF Got, After

(* A well-formed record in place of another keeps the threads well formed. *)
WellFormed(r) == r \in JobRecord /\ r.left <= r.size

LEMMA BecomesType ==
    ASSUME job \in [Job -> JobRecord], \A i \in Job : job[i].left <= job[i].size,
           NEW j \in Job, NEW r, WellFormed(r), Becomes(j, r)
    PROVE  job' \in [Job -> JobRecord] /\ \A i \in Job : job'[i].left <= job'[i].size
BY DEF Becomes, WellFormed

LEMMA GoesType ==
    ASSUME TypeOK, NEW j \in Job, NEW place \in Place
    PROVE  WellFormed([job[j] EXCEPT !.at = place])
BY DEF TypeOK, WellFormed, JobRecord

(* Every step of a thread leaves a record of the thread's fields. *)
LEMMA ThreadTypes ==
    ASSUME TypeOK, NEW j \in Job, JobStep(j)
    PROVE  TypeOK'
<1> DEFINE Threads == job \in [Job -> JobRecord] /\ \A i \in Job : job[i].left <= job[i].size
<1> DEFINE Flags == cancel \in [Kind -> BOOLEAN] /\ handle \in [Kind -> BOOLEAN]
<1>1. job[j] \in JobRecord /\ job[j].left <= job[j].size /\ Threads /\ Flags
  BY DEF TypeOK
<1>f. job[j].kind \in Kind /\ job[j].got \in Seq({"block", "end"})
  BY <1>1 DEF JobRecord
<1>2. SUFFICES Threads' /\ Flags'
  BY DEF TypeOK, JobStep
<1>g. \A what \in {"block", "end"} :
        Got(j, what) \in Seq({"block", "end"}) /\ After(j) \in 0..2
  BY GotType
<1>t. ASSUME NEW r, WellFormed(r), Becomes(j, r) PROVE Threads'
  BY <1>1, <1>t, BecomesType
<1>m. ASSUME NEW place \in Place, Goes(j, place) PROVE Threads'
  BY <1>t, <1>m, GoesType DEF Goes
<1>3. CASE Finish(j)
  BY <1>1, <1>m, <1>3 DEF Finish, Place
<1>4. CASE Start(j) /\ UNCHANGED handle
  BY <1>1, <1>m, <1>4 DEF Start, Place
<1>5. CASE Open(j) /\ UNCHANGED handle
  <2>1. PICK n \in 0..MaxBlocks, e \in BOOLEAN :
          Becomes(j, [job[j] EXCEPT !.at = "read", !.size = n, !.left = n, !.endless = e])
    BY <1>f, <1>5 DEF Open, Endless, Kind
  <2>2. WellFormed([job[j] EXCEPT !.at = "read", !.size = n, !.left = n, !.endless = e])
    <3>1. n \in 0..MaxBlocks /\ n <= n
      BY <2>1, JobsAssumption
    <3> QED BY <1>1, <3>1 DEF WellFormed, JobRecord, Place
  <2> QED BY <1>1, <1>t, <1>5, <2>1, <2>2 DEF Open
<1>6. CASE OpenFails(j) /\ UNCHANGED handle
  <2>1. WellFormed([job[j] EXCEPT !.failed = TRUE,
                      !.at = IF job[j].kind = "file" THEN "end" ELSE "finish"])
    BY <1>1 DEF WellFormed, JobRecord, Place
  <2> QED BY <1>1, <1>t, <1>6, <2>1 DEF OpenFails
<1>7. CASE Read(j) /\ UNCHANGED handle
  <2>0. job[j].left # 0 => job[j].left - 1 \in 0..MaxBlocks /\ job[j].left - 1 <= job[j].size
    BY <1>1, JobsAssumption DEF JobRecord
  <2>1. job[j].left # 0 =>
          WellFormed([job[j] EXCEPT !.at = "check",
                        !.left = IF job[j].endless THEN @ ELSE @ - 1])
    BY <1>1, <2>0 DEF WellFormed, JobRecord, Place
  <2> QED BY <1>1, <1>t, <1>m, <1>7, <2>1 DEF Read, Rest, Place
<1>8. CASE Check(j) /\ UNCHANGED handle
  BY <1>1, <1>m, <1>8 DEF Check, Rest, Place
<1>9. CASE Send(j) /\ UNCHANGED handle
  <2>1. WellFormed([job[j] EXCEPT !.at = "read", !.got = Got(j, "block"), !.after = After(j)])
    BY <1>1, <1>g DEF WellFormed, JobRecord, Place
  <2> QED BY <1>1, <1>t, <1>9, <2>1 DEF Send
<1>10. CASE SendFails(j) /\ UNCHANGED handle
  <2>1. PICK g \in {job[j].got, Got(j, "block")} :
          Becomes(j, [job[j] EXCEPT !.at = "end", !.failed = TRUE, !.got = g, !.after = After(j)])
    BY <1>10 DEF SendFails
  <2>2. g \in Seq({"block", "end"})
    BY <1>f, <1>g
  <2>3. WellFormed([job[j] EXCEPT !.at = "end", !.failed = TRUE, !.got = g, !.after = After(j)])
    BY <1>1, <1>g, <2>2 DEF WellFormed, JobRecord, Place
  <2> QED BY <1>1, <1>t, <1>10, <2>1, <2>3 DEF SendFails
<1>11. CASE SendEnd(j) /\ UNCHANGED handle
  <2>1. PICK g \in {job[j].got, Got(j, "end")} :
          Becomes(j, [job[j] EXCEPT !.at = Rest(job[j].kind), !.got = g])
    BY <1>11 DEF SendEnd
  <2>2. g \in Seq({"block", "end"})
    BY <1>f, <1>g
  <2>3. WellFormed([job[j] EXCEPT !.at = Rest(job[j].kind), !.got = g])
    BY <1>1, <2>2 DEF WellFormed, JobRecord, Place, Rest
  <2> QED BY <1>1, <1>t, <1>11, <2>1, <2>3 DEF SendEnd
<1>12. CASE CloseCommand(j) /\ UNCHANGED handle
  BY <1>1, <1>m, <1>12 DEF CloseCommand, Place
<1>13. CASE SendLast(j) /\ UNCHANGED handle
  <2>1. ASSUME NEW g \in {job[j].got, Got(j, "end")}
        PROVE  /\ WellFormed([job[j] EXCEPT !.at = "finish", !.got = g])
               /\ WellFormed([job[j] EXCEPT !.at = "finish", !.got = g, !.failed = TRUE])
    <3>1. g \in Seq({"block", "end"})
      BY <1>f, <1>g
    <3> QED BY <1>1, <3>1 DEF WellFormed, JobRecord, Place
  <2>2. CASE Becomes(j, [job[j] EXCEPT !.at = "finish", !.got = Got(j, "end")])
    BY <1>1, <1>t, <1>13, <2>1, <2>2 DEF SendLast
  <2>3. CASE \E g \in {job[j].got, Got(j, "end")} :
               Becomes(j, [job[j] EXCEPT !.at = "finish", !.got = g, !.failed = TRUE])
    BY <1>1, <1>t, <1>13, <2>1, <2>3 DEF SendLast
  <2> QED BY <1>13, <2>2, <2>3 DEF SendLast
<1> QED
  BY <1>3, <1>4, <1>5, <1>6, <1>7, <1>8, <1>9, <1>10, <1>11, <1>12, <1>13 DEF JobStep

(* The executing thread: a new record, and records whose histories change. *)
LEMMA ExecTypes ==
    ASSUME Types, ExecStep
    PROVE  Types'
<1> USE DEF Types
<1>1. CASE Launch
  <2>1. exec \in Kind /\ started + 1 \in Job /\ started' = started + 1
    BY <1>1, JobsAssumption DEF Launch, TypeOK, Job, Kind
  <2> DEFINE Begun == [NoJob EXCEPT !.kind = exec, !.at = "start"]
             Lost == [NoJob EXCEPT !.kind = exec, !.at = "done", !.failed = TRUE]
  <2>2. WellFormed(Begun) /\ WellFormed(Lost)
    <3>1. <<>> \in Seq({"block", "end"}) /\ 0 \in 0..MaxBlocks
      BY JobsAssumption
    <3>2. NoJob \in JobRecord
      BY <3>1 DEF NoJob, JobRecord, Place, Kind
    <3>3. NoJob.left <= NoJob.size
      BY DEF NoJob
    <3> QED BY <2>1, <3>2, <3>3 DEF WellFormed, JobRecord, Place
  <2>3. job' \in [Job -> JobRecord] /\ \A i \in Job : job'[i].left <= job'[i].size
    <3>1. Becomes(started + 1, Begun) \/ Becomes(started + 1, Lost)
      BY <1>1, <2>1 DEF Launch
    <3> HIDE DEF Begun, Lost
    <3>2. job \in [Job -> JobRecord] /\ \A i \in Job : job[i].left <= job[i].size
      BY DEF TypeOK
    <3>3. CASE Becomes(started + 1, Begun)
      BY <2>1, <2>2, <3>2, <3>3, BecomesType
    <3>4. CASE Becomes(started + 1, Lost)
      BY <2>1, <2>2, <3>2, <3>4, BecomesType
    <3> QED BY <3>1, <3>3, <3>4
  <2>4. handle' \in [Kind -> BOOLEAN] /\ request' \in [Kind -> 0..MaxJobs]
    <3>1. started + 1 \in 0..MaxJobs
      BY <2>1, JobsAssumption DEF Job
    <3>2. \E h \in BOOLEAN : handle' = [handle EXCEPT ![exec] = h]
      BY <1>1, JobsAssumption DEF Launch
    <3> QED BY <1>1, <2>1, <3>1, <3>2 DEF Launch, TypeOK
  <2> QED BY <1>1, <2>1, <2>3, <2>4, JobsAssumption DEF Launch, TypeOK, Job
<1>2. ASSUME NEW k \in Kind, Ask(k) PROVE Types'
  BY <1>2, JobsAssumption DEF Ask, TypeOK, Kind
<1>3. ASSUME NEW k \in Kind, Cancel(k) PROVE Types'
  <2>1. ASSUME NEW i \in Job PROVE job'[i] \in JobRecord /\ job'[i].left <= job'[i].size
    <3>1. job[i] \in JobRecord /\ job[i].left <= job[i].size
      BY DEF TypeOK
    <3>2. \/ job'[i] = job[i]
          \/ \E t \in {"early", "late"} : job'[i] = [job[i] EXCEPT !.told = t, !.after = 0]
      BY <1>3 DEF Cancel
    <3>3. ASSUME NEW t \in {"early", "late"}
          PROVE  WellFormed([job[i] EXCEPT !.told = t, !.after = 0])
      <4>1. t \in {"no", "early", "late"} /\ 0 \in 0..2
        BY <3>3
      <4> QED BY <3>1, <4>1 DEF WellFormed, JobRecord
    <3> QED BY <3>1, <3>2, <3>3 DEF WellFormed
  <2>2. job' \in [Job -> JobRecord]
    BY <1>3, <2>1 DEF Cancel
  <2> QED BY <1>3, <2>1, <2>2 DEF Cancel, TypeOK
<1> QED BY <1>1, <1>2, <1>3 DEF ExecStep, Ask

LEMMA NextTypes == Types /\ [Next]_vars => Types'
<1> SUFFICES ASSUME Types, [Next]_vars PROVE Types'
  OBVIOUS
<1>1. CASE UNCHANGED vars
  BY <1>1 DEF vars, Types, TypeOK
<1>2. CASE ExecStep
  BY <1>2, ExecTypes
<1>3. ASSUME NEW j \in Job, JobStep(j) PROVE Types'
  BY <1>3, ThreadTypes DEF Types, JobStep
<1>4. ASSUME NEW j \in Job, Dies(j) PROVE Types'
  BY <1>4 DEF Dies, Types, TypeOK
<1> QED BY <1>1, <1>2, <1>3, <1>4 DEF Next

(* The flags, parameters and threads of every behaviour keep their types;   *)
(* the executing thread never waits to start one job too many.              *)
THEOREM TypeCorrect == Spec => []TypeOK
<1>1. Types => TypeOK
  BY DEF Types
<1> QED BY <1>1, InitTypes, NextTypes, PTL DEF Spec

-----------------------------------------------------------------------------
(* The inductive invariant.  A thread holds its handle and its request, and *)
(* once a cancel caught it behind its start the flag stays up: a thread     *)
(* that is past the check with the flag up has sent nothing since.          *)
Holds(i) == Running(i) => handle[job[i].kind] /\ request[job[i].kind] = i

Stopping(i) ==
    job[i].told = "late" =>
      /\ job[i].after <= 1
      /\ Running(i) => /\ job[i].at # "start" /\ cancel[job[i].kind]
                       /\ job[i].at = "send" => job[i].after = 0

Untouched(i) == i > started => job[i].at = "none"

Inv == Types /\ \A i \in Job : Holds(i) /\ Stopping(i) /\ Untouched(i)

LEMMA InitInv == Init => Inv
<1> SUFFICES ASSUME Init PROVE Inv
  OBVIOUS
<1>1. ASSUME NEW i \in Job PROVE Holds(i) /\ Stopping(i) /\ Untouched(i)
  BY <1>1 DEF Init, NoJob, Holds, Stopping, Untouched, Running
<1> QED BY <1>1, InitTypes DEF Inv

(* Two threads of one kind would share a request. *)
LEMMA OneOfAKind ==
    ASSUME Inv, NEW i \in Job, NEW j \in Job, i # j, Running(i), Running(j)
    PROVE  job[i].kind # job[j].kind
BY DEF Inv, Holds

(* A thread's own step. *)
LEMMA OwnStep ==
    ASSUME Inv, NEW j \in Job, JobStep(j)
    PROVE  Running(j) /\ (Holds(j) /\ Stopping(j) /\ Untouched(j))'
<1>1. job[j] \in JobRecord /\ job \in [Job -> JobRecord]
  BY DEF Inv, Types, TypeOK
<1>2. Holds(j) /\ Stopping(j) /\ Untouched(j)
  BY DEF Inv
<1>3. Running(j)
  BY DEF JobStep, Start, Open, OpenFails, Read, Check, Send, SendFails, SendEnd,
         CloseCommand, SendLast, Finish, Running
<1>4. Untouched(j)'
  BY <1>2, <1>3 DEF Untouched, Running, JobStep
<1>5. handle \in [Kind -> BOOLEAN] /\ cancel \in [Kind -> BOOLEAN] /\ job[j].kind \in Kind
  BY <1>1 DEF Inv, Types, TypeOK, JobRecord
<1> DEFINE Kept == job'[j].kind = job[j].kind /\ job'[j].told = job[j].told
           Same == Kept /\ job'[j].after = job[j].after
<1> USE DEF Becomes, Goes
<1>6. CASE Finish(j)
  <2>1. Same /\ job'[j].at = "done"
    BY <1>1, <1>6 DEF Finish, JobRecord
  <2> QED BY <1>2, <1>3, <1>4, <2>1 DEF Holds, Stopping, Running
<1>7. CASE Start(j) /\ UNCHANGED handle
  <2>1. Same /\ job[j].at = "start" /\ job'[j].at = "open" /\ UNCHANGED request
    BY <1>1, <1>7 DEF Start, JobStep, JobRecord
  <2> QED BY <1>2, <1>3, <1>4, <1>7, <2>1 DEF Holds, Stopping, Running
<1>8. CASE Send(j) /\ UNCHANGED handle
  <2>1. /\ Kept /\ job[j].at = "send" /\ job'[j].at = "read"
        /\ job'[j].after = After(j) /\ UNCHANGED <<request, cancel>>
    BY <1>1, <1>8 DEF Send, JobStep, JobRecord
  <2> QED BY <1>2, <1>3, <1>4, <1>8, <2>1 DEF Holds, Stopping, Running, After
<1>9. CASE SendFails(j) /\ UNCHANGED handle
  <2>1. /\ Kept /\ job[j].at = "send" /\ job'[j].at = "end"
        /\ job'[j].after = After(j) /\ UNCHANGED <<request, cancel>>
    BY <1>1, <1>9 DEF SendFails, JobStep, JobRecord
  <2> QED BY <1>2, <1>3, <1>4, <1>9, <2>1 DEF Holds, Stopping, Running, After
<1>10. CASE Check(j) /\ UNCHANGED handle
  <2>1. /\ Same /\ UNCHANGED <<request, cancel>>
        /\ job'[j].at = IF cancel[job[j].kind] THEN Rest(job[j].kind) ELSE "send"
    BY <1>1, <1>10 DEF Check, JobStep, JobRecord
  <2> QED BY <1>2, <1>3, <1>4, <1>10, <2>1 DEF Holds, Stopping, Running, Rest
<1>11. ASSUME Same, job'[j].at \notin {"start", "send"}, UNCHANGED <<handle, request, cancel>>
       PROVE  (Holds(j) /\ Stopping(j))'
  BY <1>2, <1>3, <1>11 DEF Holds, Stopping, Running
<1>12. CASE Open(j) /\ UNCHANGED handle
  <2>1. PICK n \in 0..MaxBlocks, e \in BOOLEAN :
          Becomes(j, [job[j] EXCEPT !.at = "read", !.size = n, !.left = n, !.endless = e])
    BY <1>5, <1>12 DEF Open, Endless, Kind
  <2>2. Same /\ job'[j].at = "read"
    BY <1>1, <2>1 DEF JobRecord
  <2>3. UNCHANGED <<handle, request, cancel>>
    BY <1>12 DEF Open, JobStep
  <2> QED BY <1>3, <1>4, <1>11, <2>2, <2>3
<1>13. CASE OpenFails(j) /\ UNCHANGED handle
  <2>1. Same /\ job'[j].at \in {"end", "finish"}
    BY <1>1, <1>13 DEF OpenFails, JobRecord
  <2>2. UNCHANGED <<handle, request, cancel>>
    BY <1>13 DEF OpenFails, JobStep
  <2> QED BY <1>3, <1>4, <1>11, <2>1, <2>2
<1>14. CASE Read(j) /\ UNCHANGED handle
  <2>1. Same /\ job'[j].at \in {"check", "close", "finish"}
    <3>1. ASSUME NEW place \in {"close", "finish"}, Becomes(j, [job[j] EXCEPT !.at = place])
          PROVE  Same /\ job'[j].at = place
      BY <1>1, <3>1 DEF JobRecord
    <3>2. ASSUME NEW n, Becomes(j, [job[j] EXCEPT !.at = "check", !.left = n])
          PROVE  Same /\ job'[j].at = "check"
      BY <1>1, <3>2 DEF JobRecord
    <3>3. CASE job[j].left = 0
      BY <1>14, <3>1, <3>3 DEF Read, Rest
    <3>4. CASE job[j].left # 0
      BY <1>14, <3>2, <3>4 DEF Read
    <3> QED BY <3>3, <3>4
  <2>2. UNCHANGED <<handle, request, cancel>>
    BY <1>14 DEF Read, JobStep
  <2> QED BY <1>3, <1>4, <1>11, <2>1, <2>2
<1>15. CASE SendEnd(j) /\ UNCHANGED handle
  <2>1. PICK g \in {job[j].got, Got(j, "end")} :
          Becomes(j, [job[j] EXCEPT !.at = Rest(job[j].kind), !.got = g])
    BY <1>15 DEF SendEnd
  <2>2. Same /\ job'[j].at \in {"close", "finish"}
    BY <1>1, <2>1 DEF JobRecord, Rest
  <2>3. UNCHANGED <<handle, request, cancel>>
    BY <1>15 DEF SendEnd, JobStep
  <2> QED BY <1>3, <1>4, <1>11, <2>2, <2>3
<1>16. CASE CloseCommand(j) /\ UNCHANGED handle
  <2>1. Same /\ job'[j].at \in {"finish", "last"}
    BY <1>1, <1>16 DEF CloseCommand, JobRecord
  <2>2. UNCHANGED <<handle, request, cancel>>
    BY <1>16 DEF CloseCommand, JobStep
  <2> QED BY <1>3, <1>4, <1>11, <2>1, <2>2
<1>17. CASE SendLast(j) /\ UNCHANGED handle
  <2>1. ASSUME NEW g, Becomes(j, [job[j] EXCEPT !.at = "finish", !.got = g, !.failed = TRUE])
        PROVE  Same /\ job'[j].at = "finish"
    BY <1>1, <2>1 DEF JobRecord
  <2>2. Same /\ job'[j].at = "finish"
    <3>1. CASE Becomes(j, [job[j] EXCEPT !.at = "finish", !.got = Got(j, "end")])
      BY <1>1, <3>1 DEF JobRecord
    <3>2. CASE \E g \in {job[j].got, Got(j, "end")} :
                 Becomes(j, [job[j] EXCEPT !.at = "finish", !.got = g, !.failed = TRUE])
      BY <2>1, <3>2
    <3> QED BY <1>17, <3>1, <3>2 DEF SendLast
  <2>3. UNCHANGED <<handle, request, cancel>>
    BY <1>17 DEF SendLast, JobStep
  <2> QED BY <1>3, <1>4, <1>11, <2>2, <2>3
<1> QED
  BY <1>3, <1>4, <1>6, <1>7, <1>8, <1>9, <1>10, <1>12, <1>13, <1>14, <1>15, <1>16, <1>17
  DEF JobStep

(* What a thread's step leaves to the others. *)
LEMMA OthersStep ==
    ASSUME Inv, NEW j \in Job, JobStep(j), NEW i \in Job, i # j
    PROVE  (Holds(i) /\ Stopping(i) /\ Untouched(i))'
<1>1. job[i] \in JobRecord /\ job[j] \in JobRecord /\ job \in [Job -> JobRecord]
  BY DEF Inv, Types, TypeOK
<1>2. Holds(i) /\ Stopping(i) /\ Untouched(i)
  BY DEF Inv
<1>3. job'[i] = job[i] /\ UNCHANGED <<request, started>>
  BY <1>1 DEF JobStep, Start, Open, OpenFails, Read, Check, Send, SendFails, SendEnd,
              CloseCommand, SendLast, Finish, Becomes, Goes
<1>4. Running(j)
  BY OwnStep
<1>5. Running(i) => handle'[job[i].kind] = handle[job[i].kind]
                    /\ cancel'[job[i].kind] = cancel[job[i].kind]
  <2>1. Running(i) => job[i].kind # job[j].kind
    BY <1>4, OneOfAKind
  <2>2. handle \in [Kind -> BOOLEAN] /\ cancel \in [Kind -> BOOLEAN] /\ job[i].kind \in Kind
    BY <1>1 DEF Inv, Types, TypeOK, JobRecord
  <2> QED BY <2>1, <2>2 DEF JobStep, Start, Open, OpenFails, Read, Check, Send, SendFails,
              SendEnd, CloseCommand, SendLast, Finish
<1> QED BY <1>2, <1>3, <1>5 DEF Holds, Stopping, Untouched, Running

(* The executing thread: it starts a job only when no thread of the kind    *)
(* holds the handle, and a cancel raises the flag of every job it reaches.  *)
LEMMA ExecInv ==
    ASSUME Inv, ExecStep, NEW i \in Job
    PROVE  (Holds(i) /\ Stopping(i) /\ Untouched(i))'
<1>1. /\ job \in [Job -> JobRecord] /\ job[i] \in JobRecord /\ job[i].kind \in Kind
      /\ handle \in [Kind -> BOOLEAN] /\ cancel \in [Kind -> BOOLEAN]
      /\ request \in [Kind -> 0..MaxJobs] /\ started \in Nat /\ MaxJobs \in Nat
  BY JobsAssumption DEF Inv, Types, TypeOK, JobRecord
<1>2. Holds(i) /\ Stopping(i) /\ Untouched(i)
  BY DEF Inv
<1>3. CASE Launch
  <2>1. /\ exec \in Kind /\ ~handle[exec] /\ started' = started + 1 /\ UNCHANGED cancel
        /\ request' = [request EXCEPT ![exec] = started']
        /\ \E h : handle' = [handle EXCEPT ![exec] = h]
    BY <1>3 DEF Launch
  <2>2. started + 1 \in Job
    BY <1>1, <2>1 DEF Inv, Types, Job, Kind
  <2>3. CASE i = started + 1
    <3> DEFINE Begun == [NoJob EXCEPT !.kind = exec, !.at = "start"]
               Lost == [NoJob EXCEPT !.kind = exec, !.at = "done", !.failed = TRUE]
    <3>1. \/ job'[i] = Begun /\ handle' = [handle EXCEPT ![exec] = TRUE]
          \/ job'[i] = Lost
      BY <1>1, <1>3, <2>1, <2>3 DEF Launch, Becomes
    <3>2. /\ Begun.kind = exec /\ Begun.told = "no" /\ Lost.told = "no" /\ Lost.at = "done"
      BY DEF NoJob
    <3> HIDE DEF Begun, Lost
    <3>3. Untouched(i)'
      BY <1>1, <2>1, <2>3 DEF Untouched
    <3> QED BY <1>1, <2>1, <2>3, <3>1, <3>2, <3>3 DEF Holds, Stopping, Running
  <2>4. CASE i # started + 1
    <3>1. job'[i] = job[i]
      BY <1>1, <1>3, <2>1, <2>4 DEF Launch, Becomes
    <3>2. Running(i) => job[i].kind # exec
      BY <1>2, <2>1 DEF Holds
    <3>3. Running(i) => /\ handle'[job[i].kind] = handle[job[i].kind]
                        /\ request'[job[i].kind] = request[job[i].kind]
      BY <1>1, <2>1, <3>2
    <3>4. Untouched(i)'
      BY <1>1, <1>2, <2>1, <3>1 DEF Untouched, Job
    <3> QED BY <1>2, <2>1, <3>1, <3>3, <3>4 DEF Holds, Stopping, Running
  <2> QED BY <2>3, <2>4
<1>4. ASSUME NEW k \in Kind, Ask(k) PROVE (Holds(i) /\ Stopping(i) /\ Untouched(i))'
  BY <1>2, <1>4 DEF Ask, Holds, Stopping, Untouched, Running
<1>5. ASSUME NEW k \in Kind, Cancel(k) PROVE (Holds(i) /\ Stopping(i) /\ Untouched(i))'
  <2>1. UNCHANGED <<handle, request, started>> /\ cancel' = [cancel EXCEPT ![k] = TRUE]
    BY <1>5 DEF Cancel
  <2>2. cancel[job[i].kind] => cancel'[job[i].kind]
    BY <1>1, <2>1
  <2>3. CASE ~(Running(i) /\ job[i].kind = k) \/ job[i].told = "late"
    <3>1. job'[i] = job[i]
      BY <1>5, <2>3 DEF Cancel
    <3> QED BY <1>2, <2>1, <2>2, <3>1 DEF Holds, Stopping, Untouched, Running
  <2>4. CASE Running(i) /\ job[i].kind = k /\ job[i].told # "late"
    <3>1. job'[i] = [job[i] EXCEPT !.told = IF job[i].at = "start" THEN "early" ELSE "late",
                                   !.after = 0]
      BY <1>5, <2>4 DEF Cancel
    <3>2. /\ job'[i].kind = k /\ job'[i].at = job[i].at /\ job'[i].after = 0
          /\ job'[i].told = "late" => job[i].at # "start"
      BY <1>1, <2>4, <3>1 DEF JobRecord
    <3>3. cancel'[k]
      BY <1>1, <2>1
    <3> QED BY <1>2, <2>1, <2>4, <3>2, <3>3 DEF Holds, Stopping, Untouched, Running
  <2> QED BY <2>3, <2>4
<1> QED BY <1>3, <1>4, <1>5 DEF ExecStep

LEMMA NextInv == Inv /\ [Next]_vars => Inv'
<1> SUFFICES ASSUME Inv, [Next]_vars, NEW i \in Job
             PROVE  (Holds(i) /\ Stopping(i) /\ Untouched(i))'
  BY NextTypes DEF Inv
<1>1. CASE UNCHANGED vars
  BY <1>1 DEF vars, Inv, Holds, Stopping, Untouched, Running
<1>2. CASE ExecStep
  BY <1>2, ExecInv
<1>3. ASSUME NEW j \in Job, JobStep(j) PROVE (Holds(i) /\ Stopping(i) /\ Untouched(i))'
  BY <1>3, OwnStep, OthersStep
<1>4. ASSUME NEW j \in Job, Dies(j) PROVE (Holds(i) /\ Stopping(i) /\ Untouched(i))'
  BY <1>4 DEF Dies, Inv, Holds, Stopping, Untouched, Running
<1> QED BY <1>1, <1>2, <1>3, <1>4 DEF Next

(* However many jobs the client asks for, the path, range or command a      *)
(* running thread reads is its own: OnReceived does not replace it before   *)
(* the thread has cleared its handle.                                       *)
THEOREM OwnRequest == Spec => []ReadsOwnRequest
<1>1. Inv => ReadsOwnRequest
  BY DEF Inv, Holds, ReadsOwnRequest
<1> QED BY <1>1, InitInv, NextInv, PTL DEF Spec

(* A job whose cancel was handled after it lowered the flag sends at most   *)
(* one more block, in any number of blocks and jobs.                        *)
THEOREM CancelledStops == Spec => []CancelStops
<1>1. Inv => CancelStops
  BY DEF Inv, Stopping, CancelStops
<1> QED BY <1>1, InitInv, NextInv, PTL DEF Spec

-----------------------------------------------------------------------------
(* What the client got is counted by what the thread has read.  While       *)
(* nobody cancelled the job and no send failed, the flag of its kind is     *)
(* down behind its start, and every block read but the one in hand is sent. *)
Blocks(n) == [i \in 1..n |-> "block"]

Unread(i) == job[i].left + (IF job[i].at \in {"check", "send"} THEN 1 ELSE 0)

Unflagged(i) ==
    Running(i) /\ job[i].at # "start" /\ job[i].told = "no" => ~cancel[job[i].kind]

Counted(i) ==
    ~job[i].endless /\ job[i].told = "no" /\ ~job[i].failed =>
      /\ job[i].at # "end"
      /\ job[i].at \in {"none", "start", "open"} => job[i].got = Blocks(0)
      /\ job[i].at \in {"read", "check", "send", "close", "last"} =>
           /\ Unread(i) <= job[i].size
           /\ job[i].got = Blocks(job[i].size - Unread(i))
      /\ job[i].at \in {"close", "last"} => job[i].kind = "command" /\ job[i].left = 0
      /\ job[i].at \in {"finish", "done"} => job[i].got = Whole(i)

(* Before it is opened nothing is known to have no end. *)
Ending(i) == job[i].at \in {"none", "start", "open"} => ~job[i].endless

CountInv == Inv /\ \A i \in Job : Unflagged(i) /\ Counted(i) /\ Ending(i)

(* Blocks and the sequence operators. *)
LEMMA BlocksFacts ==
  ASSUME NEW n \in Nat
  PROVE  /\ Blocks(n) \in Seq({"block", "end"})
         /\ Append(Blocks(n), "block") = Blocks(n + 1)
         /\ Append(Blocks(n), "end") = Blocks(n) \o <<"end">>
         /\ Blocks(n) \o <<>> = Blocks(n)
         /\ Blocks(0) = <<>>
<1> DEFINE S == {"block", "end"}
<1>1. \A m \in Nat : Blocks(m) \in Seq(S) /\ Len(Blocks(m)) = m
  BY DEF Blocks
<1>2. /\ Append(Blocks(n), "block") \in Seq(S)
      /\ Len(Append(Blocks(n), "block")) = n + 1
      /\ \A i \in 1..n : Append(Blocks(n), "block")[i] = Blocks(n)[i]
      /\ Append(Blocks(n), "block")[n + 1] = "block"
  <2>1. "block" \in S
    OBVIOUS
  <2> QED
    BY <1>1, <2>1, AppendProperties
<1>3. \A i \in 1..(n+1) : Append(Blocks(n), "block")[i] = Blocks(n + 1)[i]
  BY <1>2 DEF Blocks
<1>4. Append(Blocks(n), "block") = Blocks(n + 1)
  <2>1. Blocks(n + 1) \in Seq(S) /\ Len(Blocks(n + 1)) = n + 1
    BY <1>1
  <2> HIDE DEF Blocks
  <2> QED
    BY <1>2, <1>3, <2>1, SeqEqual
<1>5. Append(Blocks(n), "end") = Blocks(n) \o <<"end">>
  <2>1. "end" \in S
    OBVIOUS
  <2> QED
    BY <1>1, <2>1, AppendIsConcat
<1>6. Blocks(n) \o <<>> = Blocks(n)
  BY <1>1, ConcatEmptySeq
<1>7. Blocks(0) = <<>>
  <2>1. Blocks(0) \in Seq(S) /\ Len(Blocks(0)) = 0
    BY <1>1
  <2> QED
    BY <2>1, EmptySeq
<1> QED
  BY <1>1, <1>4, <1>5, <1>6, <1>7

(* A whole output is all its blocks, and the end of a command's. *)
LEMMA WholeNext ==
  ASSUME NEW i \in Job, job'[i] \in JobRecord
  PROVE  /\ job'[i].kind # "command" => Whole(i)' = Blocks(job'[i].size)
         /\ job'[i].kind = "command" => Whole(i)' = Append(Blocks(job'[i].size), "end")
<1>1. job'[i].size \in Nat
  BY JobsAssumption DEF JobRecord
<1>2. Whole(i)' = Blocks(job'[i].size)
                 \o (IF job'[i].kind = "command" THEN <<"end">> ELSE <<>>)
  BY DEF Whole, Blocks
<1> QED
  BY <1>1, <1>2, BlocksFacts

LEMMA InitCountInv == Init => CountInv
<1> SUFFICES ASSUME Init, NEW i \in Job PROVE Unflagged(i) /\ Counted(i) /\ Ending(i)
  BY InitInv DEF CountInv
<1>1. job[i].at = "none" /\ job[i].got = <<>>
  BY DEF Init, NoJob
<1>2. Blocks(0) = <<>>
  BY BlocksFacts
<1> QED
  BY <1>1, <1>2 DEF Unflagged, Counted, Ending, Running, Init, NoJob

(* A thread's step leaves the flag of its kind as it was, or lowers it. *)
LEMMA OwnFlag ==
  ASSUME CountInv, NEW j \in Job, JobStep(j), job'[j].kind = job[j].kind,
         job'[j].told = job[j].told
  PROVE  Unflagged(j)'
<1>1. Unflagged(j) /\ Running(j) /\ job[j].kind \in Kind /\ cancel \in [Kind -> BOOLEAN]
  BY OwnStep DEF CountInv, Inv, Types, TypeOK, JobRecord
<1>2. CASE job[j].at = "start"
  <2>1. Start(j)
    BY <1>2 DEF JobStep, Open, OpenFails, Read, Check, Send, SendFails, SendEnd,
                CloseCommand, SendLast, Finish
  <2>2. ~cancel'[job[j].kind]
    BY <1>1, <2>1 DEF Start
  <2> QED
    BY <2>2 DEF Unflagged
<1>3. CASE job[j].at # "start"
  <2>1. cancel' = cancel
    BY <1>3 DEF JobStep, Start, Open, OpenFails, Read, Check, Send, SendFails, SendEnd,
                CloseCommand, SendLast, Finish
  <2> QED
    BY <1>1, <1>3, <2>1 DEF Unflagged
<1> QED
  BY <1>2, <1>3

LEMMA OwnCount ==
  ASSUME CountInv, NEW j \in Job, JobStep(j)
  PROVE  (Unflagged(j) /\ Counted(j) /\ Ending(j))'
<1>1. /\ job[j] \in JobRecord /\ job \in [Job -> JobRecord] /\ job[j].left <= job[j].size
      /\ Counted(j) /\ Unflagged(j) /\ Ending(j) /\ Running(j)
  BY OwnStep DEF CountInv, Inv, Types, TypeOK
<1>2. /\ job[j].size \in Nat /\ job[j].left \in Nat /\ job[j].kind \in Kind
      /\ job[j].got \in Seq({"block", "end"})
  BY <1>1, JobsAssumption DEF JobRecord
<1>3. job' \in [Job -> JobRecord]
  BY ThreadTypes DEF CountInv, Inv, Types, TypeOK
<1>4. job'[j] \in JobRecord
  BY <1>3
<1> DEFINE Named == job'[j].kind = job[j].kind /\ job'[j].told = job[j].told
           Opened == job'[j].endless = job[j].endless /\ job'[j].at \notin {"none", "start", "open"}
           Same == Named /\ Opened /\ job'[j].failed = job[j].failed
           Sized == job'[j].size = job[j].size /\ job'[j].left = job[j].left
           Fine == ~job[j].endless /\ job[j].told = "no" /\ ~job[j].failed
<1>f. ASSUME Named PROVE Unflagged(j)'
  BY <1>f, OwnFlag
<1>p. ASSUME Named, Opened, job'[j].failed PROVE (Unflagged(j) /\ Counted(j) /\ Ending(j))'
  BY <1>f, <1>p DEF Counted, Ending
<1>q. ASSUME Same, ~Fine PROVE (Unflagged(j) /\ Counted(j) /\ Ending(j))'
  BY <1>f, <1>q DEF Counted, Ending
<1> USE DEF Becomes, Goes
<1>5. CASE Finish(j)
  <2>1. /\ Same /\ Sized /\ job'[j].got = job[j].got
        /\ job[j].at = "finish" /\ job'[j].at = "done"
    BY <1>1, <1>5 DEF Finish, JobRecord
  <2>2. Whole(j)' = Whole(j)
    BY <2>1 DEF Whole
  <2> QED
    BY <1>1, <1>f, <2>1, <2>2 DEF Counted, Ending
<1>6. CASE Start(j)
  <2>1. /\ Named /\ Sized /\ job'[j].got = job[j].got /\ job'[j].failed = job[j].failed
        /\ job'[j].endless = job[j].endless
        /\ job[j].at = "start" /\ job'[j].at = "open"
    BY <1>1, <1>6 DEF Start, JobRecord
  <2> QED
    BY <1>1, <1>f, <2>1 DEF Counted, Ending
<1>7. CASE Open(j)
  <2>1. PICK n \in 0..MaxBlocks, e \in BOOLEAN :
          Becomes(j, [job[j] EXCEPT !.at = "read", !.size = n, !.left = n, !.endless = e])
    BY <1>2, <1>7 DEF Open, Endless, Kind
  <2>2. /\ Named /\ job'[j].failed = job[j].failed /\ job'[j].endless = e
        /\ job'[j].size = n /\ job'[j].left = n /\ job'[j].got = job[j].got
        /\ job[j].at = "open" /\ job'[j].at = "read"
    BY <1>1, <1>7, <2>1 DEF Open, JobRecord
  <2>3. Unread(j)' = n /\ n - n = 0 /\ n <= n
    BY <2>2, JobsAssumption DEF Unread
  <2> QED
    BY <1>1, <1>f, <2>2, <2>3 DEF Counted, Ending
<1>8. CASE OpenFails(j) \/ SendFails(j)
  <2>1. CASE OpenFails(j)
    BY <1>1, <1>p, <2>1 DEF OpenFails, JobRecord
  <2>2. CASE SendFails(j)
    <3>1. PICK g : Becomes(j, [job[j] EXCEPT !.at = "end", !.failed = TRUE, !.got = g,
                                 !.after = After(j)])
      BY <2>2 DEF SendFails
    <3> QED
      BY <1>1, <1>p, <3>1 DEF JobRecord
  <2> QED
    BY <1>8, <2>1, <2>2
<1>9. CASE Read(j)
  <2>1. CASE job[j].left = 0
    <3>1. /\ Same /\ Sized /\ job'[j].got = job[j].got /\ job[j].at = "read"
          /\ job'[j].at = Rest(job[j].kind)
      BY <1>1, <1>9, <2>1 DEF Read, JobRecord, Rest
    <3>2. CASE Fine /\ job[j].kind = "command"
      <4>1. job'[j].at = "close" /\ Unread(j) = 0 /\ Unread(j)' = 0
        BY <2>1, <3>1, <3>2 DEF Rest, Unread
      <4> QED
        BY <1>1, <1>f, <2>1, <3>1, <3>2, <4>1 DEF Counted, Ending
    <3>3. CASE Fine /\ job[j].kind # "command"
      <4>1. job'[j].at = "finish" /\ Unread(j) = 0
        BY <2>1, <3>1, <3>3 DEF Rest, Unread
      <4>2. job[j].got = Blocks(job[j].size)
        BY <1>1, <1>2, <3>1, <3>3, <4>1 DEF Counted
      <4>3. Whole(j)' = Blocks(job[j].size)
        BY <1>4, WholeNext, <3>1, <3>3
      <4> QED
        BY <1>f, <3>1, <4>1, <4>2, <4>3 DEF Counted, Ending
    <3> QED
      BY <1>q, <3>1, <3>2, <3>3
  <2>2. CASE job[j].left # 0
    <3>1. /\ Same /\ job'[j].size = job[j].size /\ job'[j].got = job[j].got
          /\ job[j].at = "read" /\ job'[j].at = "check"
          /\ ~job[j].endless => job'[j].left = job[j].left - 1
      <4>1. PICK n : /\ ~job[j].endless => n = job[j].left - 1
                     /\ Becomes(j, [job[j] EXCEPT !.at = "check", !.left = n])
        BY <1>9, <2>2 DEF Read
      <4> QED
        BY <1>1, <1>9, <4>1 DEF Read, JobRecord
    <3>2. CASE Fine
      <4>1. Unread(j)' = Unread(j)
        BY <1>2, <3>1, <3>2 DEF Unread
      <4> QED
        BY <1>1, <1>f, <3>1, <3>2, <4>1 DEF Counted, Ending
    <3> QED
      BY <1>q, <3>1, <3>2
  <2> QED
    BY <2>1, <2>2
<1>10. CASE Check(j)
  <2>1. /\ Same /\ Sized /\ job'[j].got = job[j].got /\ job[j].at = "check"
        /\ job'[j].at = IF cancel[job[j].kind] THEN Rest(job[j].kind) ELSE "send"
    BY <1>1, <1>10 DEF Check, JobRecord, Rest
  <2>2. CASE Fine
    <3>1. job'[j].at = "send"
      BY <1>1, <2>1, <2>2 DEF Unflagged
    <3>2. Unread(j)' = Unread(j)
      BY <2>1, <3>1 DEF Unread
    <3> QED
      BY <1>1, <1>f, <2>1, <2>2, <3>1, <3>2 DEF Counted, Ending
  <2> QED
    BY <1>q, <2>1, <2>2
<1>11. CASE Send(j)
  <2>1. /\ Same /\ Sized /\ job'[j].got = Got(j, "block") /\ job[j].at = "send"
        /\ job'[j].at = "read"
    BY <1>1, <1>11 DEF Send, JobRecord
  <2>2. CASE Fine
    <3>1. Unread(j) = job[j].left + 1 /\ Unread(j)' = job[j].left
      BY <1>2, <2>1 DEF Unread
    <3>2. /\ Unread(j) <= job[j].size
          /\ job[j].got = Blocks(job[j].size - Unread(j))
      BY <1>1, <2>1, <2>2 DEF Counted
    <3>3. PICK n \in Nat : n = job[j].size - Unread(j)
      BY <1>2, <3>1, <3>2
    <3>4. job'[j].got = Append(Blocks(n), "block")
      BY <2>1, <2>2, <3>2, <3>3 DEF Got
    <3>5. n + 1 = job'[j].size - Unread(j)' /\ Unread(j)' <= job'[j].size
      BY <1>2, <2>1, <3>1, <3>2, <3>3
    <3>6. job'[j].got = Blocks(n + 1)
      BY <3>4, BlocksFacts
    <3> QED
      BY <1>f, <2>1, <3>5, <3>6 DEF Counted, Ending
  <2> QED
    BY <1>q, <2>1, <2>2
<1>12. CASE SendEnd(j)
  <2>1. PICK g \in {job[j].got, Got(j, "end")} :
          Becomes(j, [job[j] EXCEPT !.at = Rest(job[j].kind), !.got = g])
    BY <1>12 DEF SendEnd
  <2>2. Same /\ job[j].at = "end"
    BY <1>1, <1>12, <2>1 DEF SendEnd, JobRecord, Rest
  <2>3. ~Fine
    BY <1>1, <2>2 DEF Counted
  <2> QED
    BY <1>q, <2>2, <2>3
<1>13. CASE CloseCommand(j)
  <2>1. /\ Same /\ Sized /\ job'[j].got = job[j].got /\ job[j].at = "close"
        /\ IF cancel["command"] THEN job'[j].at = "finish" ELSE job'[j].at = "last"
    BY <1>1, <1>13 DEF CloseCommand, JobRecord
  <2>2. CASE Fine
    <3>1. job'[j].at = "last"
      BY <1>1, <2>1, <2>2 DEF Unflagged, Counted
    <3>2. Unread(j)' = Unread(j)
      BY <2>1, <3>1 DEF Unread
    <3> QED
      BY <1>1, <1>f, <2>1, <2>2, <3>1, <3>2 DEF Counted, Ending
  <2> QED
    BY <1>q, <2>1, <2>2
<1>14. CASE SendLast(j)
  <2>1. CASE Becomes(j, [job[j] EXCEPT !.at = "finish", !.got = Got(j, "end")])
    <3>1. /\ Same /\ Sized /\ job'[j].got = Got(j, "end") /\ job[j].at = "last"
          /\ job'[j].at = "finish"
      BY <1>1, <1>14, <2>1 DEF SendLast, JobRecord
    <3>2. CASE Fine
      <4>1. job[j].kind = "command" /\ Unread(j) = 0
        BY <1>1, <3>1, <3>2 DEF Counted, Unread
      <4>2. job[j].got = Blocks(job[j].size)
        BY <1>1, <1>2, <3>1, <3>2, <4>1 DEF Counted
      <4>3. job'[j].got = Append(Blocks(job[j].size), "end")
        BY <3>1, <3>2, <4>2 DEF Got
      <4>4. Whole(j)' = Append(Blocks(job[j].size), "end")
        BY <1>4, WholeNext, <3>1, <4>1
      <4> QED
        BY <1>f, <3>1, <4>3, <4>4 DEF Counted, Ending
    <3> QED
      BY <1>q, <3>1, <3>2
  <2>2. CASE \E g \in {job[j].got, Got(j, "end")} :
               Becomes(j, [job[j] EXCEPT !.at = "finish", !.got = g, !.failed = TRUE])
    <3>1. Named /\ Opened /\ job'[j].failed
      BY <1>1, <2>2 DEF JobRecord
    <3> QED
      BY <1>p, <3>1
  <2> QED
    BY <1>14, <2>1, <2>2 DEF SendLast
<1> QED
  BY <1>5, <1>6, <1>7, <1>8, <1>9, <1>10, <1>11, <1>12, <1>13, <1>14 DEF JobStep

LEMMA OthersCount ==
  ASSUME CountInv, NEW j \in Job, JobStep(j), NEW i \in Job, i # j
  PROVE  (Unflagged(i) /\ Counted(i) /\ Ending(i))'
<1>1. job \in [Job -> JobRecord] /\ Unflagged(i) /\ Counted(i) /\ Ending(i) /\ Running(j)
  BY OwnStep DEF CountInv, Inv, Types, TypeOK
<1>2. job'[i] = job[i]
  BY <1>1 DEF JobStep, Start, Open, OpenFails, Read, Check, Send, SendFails, SendEnd,
              CloseCommand, SendLast, Finish, Becomes, Goes
<1>3. Running(i) => cancel'[job[i].kind] = cancel[job[i].kind]
  <2>1. Running(i) => job[i].kind # job[j].kind
    BY <1>1, OneOfAKind DEF CountInv
  <2>2. cancel \in [Kind -> BOOLEAN] /\ job[i].kind \in Kind
    BY <1>1 DEF CountInv, Inv, Types, TypeOK, JobRecord
  <2> QED
    BY <2>1, <2>2 DEF JobStep, Start, Open, OpenFails, Read, Check, Send, SendFails,
              SendEnd, CloseCommand, SendLast, Finish
<1> QED
  BY <1>1, <1>2, <1>3 DEF Unflagged, Ending, Counted, Running, Unread, Whole

(* A new job has got nothing, and a cancel is told to whoever runs. *)
LEMMA ExecCount ==
  ASSUME CountInv, ExecStep, NEW i \in Job
  PROVE  (Unflagged(i) /\ Counted(i) /\ Ending(i))'
<1>1. /\ job \in [Job -> JobRecord] /\ job[i] \in JobRecord /\ job[i].kind \in Kind
      /\ cancel \in [Kind -> BOOLEAN] /\ Unflagged(i) /\ Counted(i) /\ Ending(i)
  BY DEF CountInv, Inv, Types, TypeOK, JobRecord
<1>2. ASSUME job'[i] = job[i], cancel'[job[i].kind] = cancel[job[i].kind] \/ ~Running(i)
                               \/ job[i].told # "no"
      PROVE  (Unflagged(i) /\ Counted(i) /\ Ending(i))'
  BY <1>1, <1>2 DEF Unflagged, Ending, Counted, Running, Unread, Whole
<1>3. CASE Launch
  <2> DEFINE Begun == [NoJob EXCEPT !.kind = exec, !.at = "start"]
             Lost == [NoJob EXCEPT !.kind = exec, !.at = "done", !.failed = TRUE]
  <2>1. Becomes(started + 1, Begun) \/ Becomes(started + 1, Lost)
    BY <1>3 DEF Launch
  <2>2. job'[i] = job[i] \/ job'[i] = Begun \/ job'[i] = Lost
    BY <1>1, <2>1 DEF Becomes
  <2>3. /\ Begun.at = "start" /\ Begun.got = <<>> /\ Lost.at = "done" /\ Lost.failed /\ ~Begun.endless
    BY DEF NoJob
  <2>4. UNCHANGED cancel /\ Blocks(0) = <<>>
    BY <1>3, BlocksFacts DEF Launch
  <2> HIDE DEF Begun, Lost
  <2>5. CASE job'[i] = job[i]
    BY <1>2, <2>4, <2>5
  <2>6. CASE job'[i] = Begun
    BY <2>3, <2>4, <2>6 DEF Unflagged, Ending, Counted
  <2>7. CASE job'[i] = Lost
    BY <2>3, <2>7 DEF Unflagged, Ending, Counted, Running
  <2> QED
    BY <2>2, <2>5, <2>6, <2>7
<1>4. ASSUME NEW k \in Kind, Ask(k) PROVE (Unflagged(i) /\ Counted(i) /\ Ending(i))'
  BY <1>2, <1>4 DEF Ask
<1>5. ASSUME NEW k \in Kind, Cancel(k) PROVE (Unflagged(i) /\ Counted(i) /\ Ending(i))'
  <2>1. cancel' = [cancel EXCEPT ![k] = TRUE]
    BY <1>5 DEF Cancel
  <2>2. job[i].kind # k => cancel'[job[i].kind] = cancel[job[i].kind]
    BY <1>1, <2>1
  <2>3. CASE ~(Running(i) /\ job[i].kind = k) \/ job[i].told = "late"
    <3>1. job'[i] = job[i]
      BY <1>5, <2>3 DEF Cancel
    <3> QED
      BY <1>2, <2>2, <2>3, <3>1
  <2>4. CASE Running(i) /\ job[i].kind = k /\ job[i].told # "late"
    <3>1. PICK t \in {"early", "late"} : job'[i] = [job[i] EXCEPT !.told = t, !.after = 0]
      BY <1>5, <2>4 DEF Cancel
    <3>2. job'[i].told = t /\ job'[i].at = job[i].at /\ job'[i].endless = job[i].endless
      BY <1>1, <3>1 DEF JobRecord
    <3> QED
      BY <1>1, <3>2 DEF Unflagged, Ending, Counted
  <2> QED
    BY <2>3, <2>4
<1> QED
  BY <1>3, <1>4, <1>5 DEF ExecStep

LEMMA NextCountInv == CountInv /\ [Next]_vars => CountInv'
<1> SUFFICES ASSUME CountInv, [Next]_vars, NEW i \in Job
             PROVE  (Unflagged(i) /\ Counted(i) /\ Ending(i))'
  BY NextInv DEF CountInv
<1>1. CASE UNCHANGED vars
  BY <1>1 DEF vars, CountInv, Unflagged, Ending, Counted, Running, Unread, Whole
<1>2. CASE ExecStep
  BY <1>2, ExecCount
<1>3. ASSUME NEW j \in Job, JobStep(j) PROVE (Unflagged(i) /\ Counted(i) /\ Ending(i))'
  BY <1>3, OwnCount, OthersCount
<1>4. ASSUME NEW j \in Job, Dies(j) PROVE (Unflagged(i) /\ Counted(i) /\ Ending(i))'
  BY <1>4 DEF Dies, CountInv, Unflagged, Ending, Counted, Running, Unread, Whole
<1> QED
  BY <1>1, <1>2, <1>3, <1>4 DEF Next

(* Whatever is cancelled before or beside it, a download or a command that  *)
(* nobody cancelled and whose sends worked gave the client every block, and *)
(* the command's end, in any number of jobs and blocks.                     *)
THEOREM UncancelledIsWhole == Spec => []NotCutShort
<1>1. CountInv => NotCutShort
  BY DEF CountInv, Counted, NotCutShort
<1> QED
  BY <1>1, InitCountInv, NextCountInv, PTL DEF Spec
=============================================================================

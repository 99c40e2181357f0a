------------------------------ MODULE JobProofs ------------------------------
(***************************************************************************)
(* Theorems about JobSystem, for every number of jobs, threads and clients *)
(* and every value of the bounds.                                          *)
(***************************************************************************)
EXTENDS JobProperties, SequenceTheorems, TLAPS

-----------------------------------------------------------------------------
(* The table operations.                                                   *)

\* to_time_t gives a time, and not a later one.
LEMMA ToTimeTBounds ==
  ASSUME NEW t \in Time
  PROVE  ToTimeT(t) \in Time /\ ToTimeT(t) <= t
<1>1. t \in Nat /\ Second \in Nat \ {0}
  BY ModelAssumption DEF ModelAssumption, Time
<1>2. t % Second \in Nat /\ t % Second <= t
  <2>1. CASE t < Second
    BY <1>1, <2>1
  <2>2. CASE t >= Second
    BY <1>1, <2>2
  <2> QED
    BY <1>1, <2>1, <2>2
<1> QED
  BY <1>1, <1>2, ModelAssumption DEF ToTimeT, Time, ModelAssumption

\* A table operation gives a table.
LEMMA TableTypes ==
  ASSUME NEW tbl \in [Job -> Row], NEW j \in Job,
         NEW s \in JobStatus, NEW t \in Time, NEW n \in Nat
  PROVE  /\ Save(tbl, j, t) \in [Job -> Row]
         /\ UpdateStatus(tbl, j, s) \in [Job -> Row]
         /\ UpdateNextRun(tbl, j, t) \in [Job -> Row]
         /\ UpdateRetryCount(tbl, j, n) \in [Job -> Row]
         /\ Remove(tbl, j) \in [Job -> Row]
<1>0. "Active" \in JobStatus
  BY DEF JobStatus
<1>1. Save(tbl, j, t) \in [Job -> Row]
  BY <1>0, ToTimeTBounds DEF Save, Row
<1>2. UpdateStatus(tbl, j, s) \in [Job -> Row]
  BY DEF UpdateStatus, Row
<1>3. UpdateNextRun(tbl, j, t) \in [Job -> Row]
  BY ToTimeTBounds DEF UpdateNextRun, Row
<1>4. UpdateRetryCount(tbl, j, n) \in [Job -> Row]
  BY DEF UpdateRetryCount, Row
<1>5. Vacant("removed") \in Row
  BY ModelAssumption DEF Vacant, Row, Time
<1>6. Remove(tbl, j) \in [Job -> Row]
  BY <1>5 DEF Remove
<1> QED
  BY <1>1, <1>2, <1>3, <1>4, <1>6

\* What a table operation does to the status of a row.
LEMMA TableStatus ==
  ASSUME NEW tbl \in [Job -> Row], NEW j \in Job, NEW k \in Job,
         NEW s \in JobStatus, NEW t \in Time, NEW n \in Nat
  PROVE  /\ k # j => Save(tbl, j, t)[k].status = tbl[k].status
         /\ UpdateStatus(tbl, j, s)[k].status =
              (IF k = j /\ Present(tbl, j) THEN s ELSE tbl[k].status)
         /\ UpdateNextRun(tbl, j, t)[k].status = tbl[k].status
         /\ UpdateRetryCount(tbl, j, n)[k].status = tbl[k].status
         /\ Remove(tbl, j)[k].status =
              (IF k = j /\ Present(tbl, j) THEN "removed" ELSE tbl[k].status)
BY DEF Save, UpdateStatus, UpdateNextRun, UpdateRetryCount, Remove, Vacant, Row

-----------------------------------------------------------------------------
(* Schedules and sequences of ids.                                         *)

\* A schedule asked at a time the clock shows answers in Time, or NoTime.
LEMMA NextRunsTypes ==
  ASSUME NEW j \in Job, NEW from \in 0 .. MaxNow
  PROVE  NextRuns(j, from) \subseteq Time \cup {NoTime}
BY ModelAssumption
   DEF ModelAssumption, NextRuns, OneTimeRuns, IntervalRuns, CronRuns, Time, NoTime

\* Appending an id to a sequence adds this id and keeps the others.
LEMMA OccursAppend ==
  ASSUME NEW s \in Seq(Job), NEW j \in Job, NEW k \in Job
  PROVE  Occurs(k, Append(s, j)) <=> Occurs(k, s) \/ k = j
BY AppendProperties DEF Occurs

\* Taking the head of a sequence loses no other id.
LEMMA OccursTail ==
  ASSUME NEW s \in Seq(Job), s # <<>>, NEW k \in Job
  PROVE  Occurs(k, s) => k = Head(s) \/ Occurs(k, Tail(s))
<1> SUFFICES ASSUME NEW i \in 1 .. Len(s), s[i] = k, k # Head(s)
             PROVE  Occurs(k, Tail(s))
  BY DEF Occurs
<1>1. Len(s) \in Nat /\ i > 1
  BY HeadTailProperties, LenProperties
<1>2. i - 1 \in 1 .. Len(Tail(s)) /\ Tail(s)[i - 1] = s[i]
  BY <1>1, HeadTailProperties, LenProperties
<1> QED
  BY <1>2 DEF Occurs

-----------------------------------------------------------------------------
(* Type correctness.                                                       *)

USE DEF Goto, Return

\* Init gives every variable a value of its type.
LEMMA InitTypes == Init => TypeOK
<1> SUFFICES ASSUME Init PROVE TypeOK
  OBVIOUS
<1>1. 0 \in Time /\ 0 \in 0 .. MaxNow /\ 0 \in Nat
  BY ModelAssumption DEF ModelAssumption, Time
<1>2. Vacant("unused") \in Row
  BY <1>1 DEF Vacant, Row
<1>3. NoFrame \in Frame /\ NoHandler \in Handler /\ LoopStart \in LoopState
  BY <1>1 DEF NoFrame, Frame, ExecPc, NoHandler, Handler, HandlerPc,
              LoopStart, LoopState, LoopPc
<1>4. EmptyHeap \in [Job -> [Time -> Nat]]
  BY <1>1 DEF EmptyHeap
<1>5. <<>> \in Seq(Job)
  BY EmptySeq
<1>6. 0 \in 0 .. MaxCalls /\ 0 \in 0 .. MaxCrashes
  BY SystemAssumption DEF SystemAssumption
<1>7. loop.pc = "wait" /\ \A th \in Thread : frame[th].pc = "idle"
  BY DEF Init, NoFrame, LoopStart
<1>8. \A c \in Client : handler[c].pc = "idle"
  BY DEF Init, NoHandler
<1> QED
  BY <1>1, <1>2, <1>3, <1>4, <1>5, <1>6, <1>7, <1>8 DEF Init, TypeOK

\* A call of execute starts in a frame.
LEMMA CallTypes == \A j \in Job : ExecuteCall(j) \in Frame
<1>1. 0 \in Time
  BY ModelAssumption DEF ModelAssumption, Time
<1> QED
  BY <1>1 DEF ExecuteCall, Frame, ExecPc

\* The process and its clock keep the types.
LEMMA ProcessTypes == TypeOK /\ (Tick \/ Boot \/ Crash) => TypeOK'
<1> SUFFICES ASSUME TypeOK PROVE (Tick \/ Boot \/ Crash) => TypeOK'
  OBVIOUS
<1>1. ASSUME Tick PROVE TypeOK'
  BY <1>1, ModelAssumption DEF Tick, TypeOK, ModelAssumption
<1>2. ASSUME Boot PROVE TypeOK'
  BY <1>2 DEF Boot, TypeOK
<1>3. ASSUME Crash PROVE TypeOK'
  <2>1. 0 \in Time /\ 0 \in 0 .. MaxNow /\ 0 \in Nat
    BY ModelAssumption DEF ModelAssumption, Time
  <2>2. NoFrame \in Frame /\ NoHandler \in Handler /\ LoopStart \in LoopState
    BY <2>1 DEF NoFrame, Frame, ExecPc, NoHandler, Handler, HandlerPc,
                LoopStart, LoopState, LoopPc
  <2>3. EmptyHeap \in [Job -> [Time -> Nat]]
    BY <2>1 DEF EmptyHeap
  <2>4. crashes' \in 0 .. MaxCrashes
    BY <1>3, SystemAssumption DEF Crash, TypeOK, SystemAssumption
  <2>5. <<>> \in Seq(Job)
    BY EmptySeq
  <2>6. loop'.pc = "wait" /\ \A th \in Thread : frame'[th].pc = "idle"
    BY <1>3 DEF Crash, NoFrame, LoopStart
  <2>7. \A c \in Client : handler'[c].pc = "idle"
    BY <1>3 DEF Crash, NoHandler
  <2> QED
    BY <1>3, <2>2, <2>3, <2>4, <2>5, <2>6, <2>7 DEF Crash, TypeOK
<1> QED
  BY <1>1, <1>2, <1>3

\* The loop thread keeps the types.
LEMMA LoopTypes == TypeOK /\ LoopStep => TypeOK'
<1> SUFFICES ASSUME TypeOK PROVE LoopStep => TypeOK'
  OBVIOUS
<1> USE DEF TypeOK, LoopState, LoopPc
<1>0. 0 \in 0 .. MaxNow /\ Loop \in Thread
  BY ModelAssumption DEF ModelAssumption, Thread
<1>1. ASSUME LoopLock PROVE TypeOK'
  BY <1>1 DEF LoopLock
<1>2. ASSUME LoopPop PROVE TypeOK'
  <2> PICK j \in Job, t \in Time :
        /\ heap[j][t] > 0
        /\ heap' = [heap EXCEPT ![j][t] = @ - 1]
        /\ loop' = [loop EXCEPT !.batch = Append(@, j)]
    BY <1>2 DEF LoopPop, Poppable, Earliest
  <2>1. heap[j] \in [Time -> Nat] /\ heap[j][t] - 1 \in Nat
    OBVIOUS
  <2>2. heap' \in [Job -> [Time -> Nat]]
    BY <2>1
  <2>3. loop' \in LoopState /\ loop'.pc = loop.pc
    BY AppendProperties
  <2> QED
    BY <1>2, <2>2, <2>3 DEF LoopPop, Poppable
<1>3. ASSUME LoopUnlock PROVE TypeOK'
  BY <1>0, <1>3 DEF LoopUnlock
<1>4. ASSUME LoopSkip PROVE TypeOK'
  BY <1>4, HeadTailProperties DEF LoopSkip, AtEach
<1>5. ASSUME LoopExecute PROVE TypeOK'
  <2>1. Head(loop.batch) \in Job /\ Tail(loop.batch) \in Seq(Job)
    BY <1>5, HeadTailProperties DEF LoopExecute
  <2>2. ExecuteCall(Head(loop.batch)) \in Frame
    BY <2>1, CallTypes
  <2> QED
    BY <1>0, <1>5, <2>1, <2>2 DEF LoopExecute, AtEach, ExecuteCall
<1>6. ASSUME LoopDispatch PROVE TypeOK'
  BY <1>6, HeadTailProperties DEF LoopDispatch
<1>7. ASSUME LoopAgain PROVE TypeOK'
  BY <1>7 DEF LoopAgain
<1>8. ASSUME MarkRunning PROVE TypeOK'
  <2>1. loop.id \in Job /\ "Running" \in JobStatus
    BY <1>8 DEF MarkRunning, JobStatus
  <2>2. db' \in [Job -> Row]
    BY <1>8, <2>1, TableTypes, ModelAssumption
       DEF MarkRunning, Time, ModelAssumption
  <2> QED
    BY <1>8, <2>1, <2>2 DEF MarkRunning
<1>9. ASSUME Submit PROVE TypeOK'
  BY <1>9, AppendProperties DEF Submit
<1> QED
  BY <1>1, <1>2, <1>3, <1>4, <1>5, <1>6, <1>7, <1>8, <1>9 DEF LoopStep

\* The part of TypeOK that speaks of the frames.
FramesOK ==
  /\ frame \in [Thread -> Frame]
  /\ \A th \in Thread : frame[th].pc # "idle" => frame[th].id \in Job

\* Moving a thread that holds a job to another point of execute, or out of it,
\* keeps the types of the frames.
LEMMA FrameTypes ==
  ASSUME TypeOK, NEW th \in Thread, frame[th].pc # "idle",
         NEW pc \in ExecPc, NEW n \in Nat, NEW t \in Time
  PROVE  /\ Goto(th, pc) => FramesOK'
         /\ Return(th) => FramesOK'
         /\ frame' = [frame EXCEPT ![th] = [@ EXCEPT !.pc = pc, !.count = n]] => FramesOK'
         /\ frame' = [frame EXCEPT ![th] = [@ EXCEPT !.pc = pc, !.next = t]] => FramesOK'
<1> USE DEF TypeOK, FramesOK, Frame
<1>1. NoFrame \in Frame
  BY ModelAssumption DEF NoFrame, ExecPc, Time, ModelAssumption
<1>2. frame[th].id \in Job
  OBVIOUS
<1>3. Goto(th, pc) => FramesOK'
  BY <1>2
<1>4. Return(th) => FramesOK'
  BY <1>1 DEF NoFrame
<1>5. frame' = [frame EXCEPT ![th] = [@ EXCEPT !.pc = pc, !.count = n]] => FramesOK'
  BY <1>2
<1>6. frame' = [frame EXCEPT ![th] = [@ EXCEPT !.pc = pc, !.next = t]] => FramesOK'
  BY <1>2
<1> QED
  BY <1>3, <1>4, <1>5, <1>6

\* A push keeps the type of the heap.
LEMMA PushTypes ==
  ASSUME TypeOK, NEW j \in Job, NEW t \in Time, Push(j, t)
  PROVE  heap' \in [Job -> [Time -> Nat]]
<1>1. heap[j] \in [Time -> Nat] /\ heap[j][t] + 1 \in Nat
  BY DEF TypeOK
<1> QED
  BY <1>1 DEF Push, TypeOK

\* A step of execute, or an answer of the runner, keeps the types.
LEMMA ExecuteTypes ==
  ASSUME TypeOK, NEW th \in Thread
  PROVE  ExecuteStep(th) \/ RunnerReturns(th) => TypeOK'
<1> DEFINE j == frame[th].id
<1> SUFFICES ASSUME frame[th].pc # "idle"
             PROVE  ExecuteStep(th) \/ RunnerReturns(th) => TypeOK'
  BY DEF ExecuteStep, RunnerReturns, Reread, Repause, RunStart, RunSucceed,
         RunFail, Complete, Fail, SetActive, SetNext, ResetCount, CountRetry,
         SetRetryNext, SetRetryActive, Reschedule, Write, WriteAndReturn
<1>1. j \in Job /\ frame[th].count \in Nat /\ frame[th].next \in Time
  BY DEF TypeOK, Frame
<1>2. db[j].retry_count \in Nat
  BY <1>1 DEF TypeOK, Row
<1>3. /\ \A s \in JobStatus : UpdateStatus(db, j, s) \in [Job -> Row]
      /\ \A t \in Time : UpdateNextRun(db, j, t) \in [Job -> Row]
      /\ \A n \in Nat : UpdateRetryCount(db, j, n) \in [Job -> Row]
  BY <1>1, TableTypes DEF TypeOK, JobStatus
<1>4. ASSUME FramesOK', db' \in [Job -> Row],
             UNCHANGED <<now, up, heap, loop, queue, handler, calls, crashes>>
      PROVE  TypeOK'
  BY <1>4 DEF TypeOK, FramesOK
<1>5. ASSUME Reread(th) PROVE TypeOK'
  <2>1. AfterReread(j, db[j]) \in {"return", "repause", "fail", "start"}
    BY DEF AfterReread
  <2>2. CASE AfterReread(j, db[j]) = "return"
    <3>1. Return(th)
      BY <1>5, <2>2 DEF Reread
    <3> QED
      BY <1>1, <1>4, <1>5, <3>1, FrameTypes DEF Reread, TypeOK, ExecPc
  <2>3. CASE AfterReread(j, db[j]) # "return"
    <3> DEFINE pc == AfterReread(j, db[j])
    <3>1. frame' = [frame EXCEPT ![th] = [@ EXCEPT !.pc = pc, !.count = db[j].retry_count]]
      BY <1>5, <2>3 DEF Reread
    <3>2. pc \in ExecPc
      BY <2>1, <2>3 DEF ExecPc
    <3> HIDE DEF pc
    <3>3. FramesOK'
      BY <1>1, <1>2, <3>1, <3>2, FrameTypes
    <3> QED
      BY <1>4, <1>5, <3>3 DEF Reread, TypeOK
  <2> QED
    BY <2>2, <2>3
<1>6. ASSUME NEW from \in ExecPc, NEW tbl \in [Job -> Row], NEW pc \in ExecPc,
             Write(th, from, tbl, pc) \/ WriteAndReturn(th, from, tbl)
      PROVE  TypeOK'
  <2>1. FramesOK'
    BY <1>1, <1>6, FrameTypes DEF Write, WriteAndReturn
  <2> QED
    BY <1>4, <1>6, <2>1 DEF Write, WriteAndReturn
<1>7. ASSUME Repause(th) \/ Complete(th) \/ Fail(th) PROVE TypeOK'
  BY <1>3, <1>6, <1>7 DEF Repause, Complete, Fail, ExecPc, JobStatus
<1>8. ASSUME SetActive(th) \/ SetRetryActive(th) PROVE TypeOK'
  BY <1>3, <1>6, <1>8 DEF SetActive, SetRetryActive, ExecPc, JobStatus
<1>9. ASSUME SetNext(th) \/ ResetCount(th) \/ CountRetry(th) PROVE TypeOK'
  BY <1>1, <1>3, <1>6, <1>9 DEF SetNext, ResetCount, CountRetry, ExecPc
<1>10. ASSUME SetRetryNext(th) PROVE TypeOK'
  <2>1. now \in 0 .. MaxNow /\ RetryDelay[j] \in 0 .. MaxSpan
    BY <1>1, ModelAssumption DEF TypeOK, ModelAssumption
  <2>2. now + RetryDelay[j] \in Time
    BY <2>1, ModelAssumption DEF Time, ModelAssumption
  <2>3. FramesOK'
    BY <1>1, <1>2, <1>10, <2>2, FrameTypes DEF SetRetryNext, ExecPc
  <2> QED
    BY <1>3, <1>4, <1>10, <2>2, <2>3 DEF SetRetryNext
<1>11. ASSUME RunStart(th) \/ RunFail(th) PROVE TypeOK'
  <2>1. FramesOK'
    BY <1>1, <1>2, <1>11, FrameTypes DEF RunStart, RunFail, ExecPc
  <2> QED
    BY <1>4, <1>11, <2>1 DEF RunStart, RunFail, TypeOK
<1>12. ASSUME RunSucceed(th) PROVE TypeOK'
  <2> PICK n \in NextRuns(j, now) :
        IF n = NoTime \/ Kind[j] = "one_time"
        THEN Goto(th, "complete")
        ELSE frame' = [frame EXCEPT ![th] = [@ EXCEPT !.pc = "set_active", !.next = n]]
    BY <1>12 DEF RunSucceed, IsLast
  <2>1. n = NoTime \/ n \in Time
    BY <1>1, NextRunsTypes DEF TypeOK
  <2>2. FramesOK'
    BY <1>1, <1>2, <2>1, FrameTypes DEF ExecPc
  <2> QED
    BY <1>4, <1>12, <2>2 DEF RunSucceed, TypeOK
<1>13. ASSUME Reschedule(th) PROVE TypeOK'
  <2>1. FramesOK' /\ heap' \in [Job -> [Time -> Nat]]
    BY <1>1, <1>2, <1>13, FrameTypes, PushTypes DEF Reschedule, ExecPc
  <2> QED
    BY <1>13, <2>1 DEF Reschedule, TypeOK, FramesOK
<1> QED
  BY <1>5, <1>7, <1>8, <1>9, <1>10, <1>11, <1>12, <1>13
     DEF ExecuteStep, RunnerReturns

\* A JobService handler keeps the types.
LEMMA HandlerTypes ==
  ASSUME TypeOK, NEW c \in Client
  PROVE  HandlerBegin(c) \/ HandlerStep(c) => TypeOK'
<1> DEFINE HandlersOK == /\ handler \in [Client -> Handler]
                         /\ \A d \in Client :
                              handler[d].pc # "idle" => handler[d].id \in Job
<1>1. 0 \in Time /\ NoHandler \in Handler
  BY ModelAssumption DEF ModelAssumption, Time, NoHandler, Handler, HandlerPc
<1>2. ASSUME NEW op, NEW h \in Handler, h.id \in Job, BeginCall(c, op, h)
      PROVE  HandlersOK' /\ calls' \in 0 .. MaxCalls
  BY <1>2, SystemAssumption DEF BeginCall, TypeOK, SystemAssumption
<1>3. ASSUME HandlersOK', calls' \in 0 .. MaxCalls, db' \in [Job -> Row],
             heap' \in [Job -> [Time -> Nat]],
             UNCHANGED <<now, up, loop, queue, frame, crashes>>
      PROVE  TypeOK'
  BY <1>3 DEF TypeOK
<1>4. ASSUME handler' = [handler EXCEPT ![c] = NoHandler]
      PROVE  HandlersOK'
  BY <1>1, <1>4 DEF TypeOK, NoHandler
<1>5. ASSUME NEW j \in Job, CreateSave(c, j) PROVE TypeOK'
  <2> PICK n \in NextRuns(j, now) \ {NoTime} :
        /\ db' = Save(db, j, n)
        /\ BeginCall(c, "create", [pc |-> "schedule", id |-> j, next |-> n])
    BY <1>5 DEF CreateSave
  <2>1. n \in Time
    BY NextRunsTypes DEF TypeOK
  <2>2. db' \in [Job -> Row]
    BY <2>1, TableTypes, "Active" \in JobStatus, 0 \in Nat DEF TypeOK, JobStatus
  <2>3. [pc |-> "schedule", id |-> j, next |-> n] \in Handler
    BY <2>1 DEF Handler, HandlerPc
  <2> QED
    BY <1>2, <1>3, <1>5, <2>2, <2>3 DEF CreateSave, TypeOK
<1>6. ASSUME NEW j \in Job, PauseFind(c, j) PROVE TypeOK'
  <2>1. [NoHandler EXCEPT !.pc = "pause", !.id = j] \in Handler
    BY <1>1 DEF NoHandler, Handler, HandlerPc
  <2> QED
    BY <1>2, <1>3, <1>6, <2>1 DEF PauseFind, TypeOK, NoHandler
<1>7. ASSUME NEW j \in Job, ResumeFind(c, j) PROVE TypeOK'
  <2>1. [pc |-> "resume", id |-> j, next |-> db[j].next_run] \in Handler
    BY DEF Handler, HandlerPc, TypeOK, Row
  <2> QED
    BY <1>2, <1>3, <1>7, <2>1 DEF ResumeFind, TypeOK
<1>8. ASSUME NEW j \in Job, DeleteFind(c, j) PROVE TypeOK'
  <2>1. [NoHandler EXCEPT !.pc = "delete", !.id = j] \in Handler
    BY <1>1 DEF NoHandler, Handler, HandlerPc
  <2> QED
    BY <1>2, <1>3, <1>8, <2>1 DEF DeleteFind, TypeOK, NoHandler
<1>9. ASSUME CallSchedule(c) PROVE TypeOK'
  <2>1. handler[c].id \in Job /\ handler[c].next \in Time
    BY <1>9 DEF CallSchedule, TypeOK, Handler
  <2> QED
    BY <1>3, <1>4, <1>9, <2>1, PushTypes DEF CallSchedule, TypeOK
<1>10. ASSUME PauseWrite(c) PROVE TypeOK'
  <2>1. UpdateStatus(db, handler[c].id, "Paused") \in [Job -> Row]
    BY <1>1, <1>10, TableTypes DEF PauseWrite, TypeOK, JobStatus
  <2> QED
    BY <1>3, <1>4, <1>10, <2>1 DEF PauseWrite, TypeOK
<1>11. ASSUME ResumeWrite(c) PROVE TypeOK'
  <2>1. UpdateStatus(db, handler[c].id, "Active") \in [Job -> Row]
    BY <1>1, <1>11, TableTypes DEF ResumeWrite, TypeOK, JobStatus
  <2>2. HandlersOK'
    BY <1>11 DEF ResumeWrite, TypeOK, Handler, HandlerPc
  <2> QED
    BY <1>3, <1>11, <2>1, <2>2 DEF ResumeWrite, TypeOK
<1>12. ASSUME DeleteRemove(c) PROVE TypeOK'
  <2>1. Remove(db, handler[c].id) \in [Job -> Row]
    BY <1>1, <1>12, TableTypes DEF DeleteRemove, TypeOK, JobStatus
  <2> QED
    BY <1>3, <1>4, <1>12, <2>1 DEF DeleteRemove, TypeOK
<1> QED
  BY <1>5, <1>6, <1>7, <1>8, <1>9, <1>10, <1>11, <1>12
     DEF HandlerBegin, HandlerStep

\* A worker that takes a call off the queue keeps the types.
LEMMA WorkerTypes ==
  ASSUME TypeOK, NEW w \in Worker
  PROVE  WorkerTake(w) => TypeOK'
<1> SUFFICES ASSUME WorkerTake(w) PROVE TypeOK'
  OBVIOUS
<1>1. Head(queue) \in Job /\ Tail(queue) \in Seq(Job)
  BY HeadTailProperties DEF WorkerTake, TypeOK
<1>2. w \in Thread
  BY DEF Thread
<1>3. FramesOK'
  BY <1>1, <1>2, CallTypes DEF WorkerTake, TypeOK, FramesOK, ExecuteCall
<1> QED
  BY <1>1, <1>3 DEF WorkerTake, TypeOK, FramesOK

(***************************************************************************)
(* Type correctness: every variable always holds a value of its type, and  *)
(* every thread that is in a call of execute or of JobService is in it for *)
(* a job.                                                                  *)
(***************************************************************************)
THEOREM TypeCorrect == Spec => []TypeOK
<1>1. Init => TypeOK
  BY InitTypes
<1>2. TypeOK /\ [Next]_vars => TypeOK'
  <2> SUFFICES ASSUME TypeOK, [Next]_vars PROVE TypeOK'
    OBVIOUS
  <2>1. ASSUME UNCHANGED vars PROVE TypeOK'
    BY <2>1 DEF vars, TypeOK
  <2> QED
    BY <2>1, ProcessTypes, LoopTypes, ExecuteTypes, HandlerTypes, WorkerTypes
       DEF Next
<1> QED
  BY <1>1, <1>2, PTL DEF Spec

-----------------------------------------------------------------------------
(* No job is lost.                                                         *)

\* An update of one column of job j's row changes no other job's status, and
\* leaves j live only if the status written is Active or Running or unchanged.
LEMMA WriteLive ==
  ASSUME TypeOK, NEW j \in Job, NEW k \in Job, Live(k)', k # j
  PROVE  /\ \A s \in JobStatus : db' = UpdateStatus(db, j, s) => Live(k)
         /\ \A t \in Time : db' = UpdateNextRun(db, j, t) => Live(k)
         /\ \A n \in Nat : db' = UpdateRetryCount(db, j, n) => Live(k)
         /\ \A t \in Time : db' = Save(db, j, t) => Live(k)
         /\ db' = Remove(db, j) => Live(k)
BY DEF TypeOK, Row, Live, UpdateStatus, UpdateNextRun, UpdateRetryCount, Save,
       Remove

\* After job j's row was given a status that is not live, or removed, j is not
\* live.
LEMMA WriteDead ==
  ASSUME TypeOK, NEW j \in Job
  PROVE  /\ \A s \in JobStatus \ {"Active", "Running"} :
              db' = UpdateStatus(db, j, s) => ~Live(j)'
         /\ db' = Remove(db, j) => ~Live(j)'
BY DEF TypeOK, Row, Live, UpdateStatus, Remove, Present, JobStatus, Vacant

\* A push puts its job in the heap and takes no other job out of it.
LEMMA PushCarries ==
  ASSUME TypeOK, NEW j \in Job, NEW t \in Time, Push(j, t), NEW k \in Job
  PROVE  InHeap(j)' /\ (InHeap(k) => InHeap(k)')
<1>1. heap[j] \in [Time -> Nat] /\ heap[j][t] + 1 \in Nat
  BY DEF TypeOK
<1>2. heap'[j][t] > 0
  BY <1>1 DEF Push, TypeOK
<1>3. ASSUME NEW u \in Time, heap[k][u] > 0 PROVE heap'[k][u] > 0
  BY <1>1, <1>3 DEF Push, TypeOK
<1> QED
  BY <1>2, <1>3 DEF InHeap

\* Popping an entry moves its job to due_ids and leaves the others.
LEMMA PopCarries ==
  ASSUME TypeOK, LoopPop, NEW k \in Job, InHeap(k) \/ Occurs(k, loop.batch)
  PROVE  InHeap(k)' \/ Occurs(k, loop.batch)'
<1> PICK j \in Job, t \in Time :
      /\ heap' = [heap EXCEPT ![j][t] = @ - 1]
      /\ loop' = [loop EXCEPT !.batch = Append(@, j)]
  BY DEF LoopPop
<1>1. loop.batch \in Seq(Job) /\ loop'.batch = Append(loop.batch, j)
  BY DEF TypeOK, LoopState
<1>2. Occurs(k, loop.batch)' <=> Occurs(k, loop.batch) \/ k = j
  BY <1>1, OccursAppend DEF Occurs
<1>3. k # j => heap'[k] = heap[k]
  BY DEF TypeOK
<1> QED
  BY <1>2, <1>3 DEF InHeap

\* The process and its clock lose no job: a restart loads every live job.
LEMMA ProcessCarries ==
  TypeOK /\ NoLostJob /\ (Tick \/ Boot \/ Crash) => NoLostJob'
<1> SUFFICES ASSUME TypeOK, NoLostJob PROVE (Tick \/ Boot \/ Crash) => NoLostJob'
  OBVIOUS
<1>1. ASSUME Tick PROVE NoLostJob'
  BY <1>1 DEF Tick, NoLostJob, Live, Carried, InHeap, Dispatching, Executing,
              Scheduling, Occurs
<1>2. ASSUME Boot PROVE NoLostJob'
  <2> SUFFICES ASSUME NEW j \in Job, Live(j)' PROVE InHeap(j)'
    BY DEF NoLostJob, Carried
  <2>1. Reloaded(j) /\ db[j].next_run \in Time
    BY <1>2 DEF Boot, Live, Reloaded, TypeOK, Row
  <2>2. heap'[j][db[j].next_run] = 1
    BY <1>2, <2>1 DEF Boot
  <2> QED
    BY <2>1, <2>2 DEF InHeap
<1>3. ASSUME Crash PROVE NoLostJob'
  BY <1>3 DEF Crash, NoLostJob
<1> QED
  BY <1>1, <1>2, <1>3

\* The loop thread loses no job: it drops an id only if its row is not live.
LEMMA LoopCarries == TypeOK /\ NoLostJob /\ LoopStep => NoLostJob'
<1> SUFFICES ASSUME TypeOK, NoLostJob, LoopStep, up', NEW k \in Job, Live(k)'
             PROVE  Carried(k)'
  BY DEF NoLostJob
<1> USE DEF Carried, InHeap, Dispatching, Executing, Scheduling, Occurs
<1>0. up /\ loop.batch \in Seq(Job) /\ queue \in Seq(Job) /\ Loop \in Thread
  BY DEF LoopStep, LoopLock, LoopPop, LoopUnlock, LoopSkip, LoopExecute,
         LoopDispatch, LoopAgain, MarkRunning, Submit, TypeOK, LoopState, Thread
<1>1. ASSUME db' = db PROVE Live(k) /\ Carried(k)
  BY <1>0, <1>1 DEF Live, NoLostJob
<1>2. CASE LoopLock
  BY <1>1, <1>2 DEF LoopLock, TypeOK, LoopState
<1>3. CASE LoopPop
  BY <1>1, <1>3, PopCarries DEF LoopPop, TypeOK, LoopState
<1>4. CASE LoopUnlock
  BY <1>1, <1>4 DEF LoopUnlock, TypeOK, LoopState
<1>5. ASSUME loop.batch # <<>>, loop'.batch = Tail(loop.batch)
      PROVE  Occurs(k, loop.batch) =>
               k = Head(loop.batch) \/ Occurs(k, loop.batch)'
  <2>1. Occurs(k, loop.batch)' <=> Occurs(k, Tail(loop.batch))
    BY <1>5
  <2> QED
    BY <1>0, <1>5, <2>1, OccursTail
<1>6. CASE LoopSkip
  <2>1. Live(k) => k # Head(loop.batch)
    BY <1>6 DEF LoopSkip, Live, Fireable, Present, JobStatus
  <2>2. loop'.batch = Tail(loop.batch) /\ loop'.pc = loop.pc /\ loop'.id = loop.id
    BY <1>6 DEF LoopSkip, TypeOK, LoopState
  <2> QED
    BY <1>1, <1>5, <1>6, <2>1, <2>2 DEF LoopSkip
<1>7. CASE LoopExecute
  <2>1. loop'.batch = Tail(loop.batch) /\ loop'.pc = loop.pc /\ loop'.id = loop.id
    BY <1>7 DEF LoopExecute, TypeOK, LoopState
  <2>2. /\ frame'[Loop] = ExecuteCall(Head(loop.batch))
        /\ frame[Loop].pc = "idle"
        /\ \A th \in Thread \ {Loop} : frame'[th] = frame[th]
    BY <1>0, <1>7 DEF LoopExecute, AtEach, TypeOK
  <2>3. Executing(k) => Executing(k)'
    BY <2>2
  <2>4. k = Head(loop.batch) => Executing(k)'
    BY <1>0, <2>2 DEF ExecuteCall
  <2> QED
    BY <1>1, <1>5, <1>7, <2>1, <2>3, <2>4 DEF LoopExecute
<1>8. CASE LoopDispatch
  <2>1. /\ loop'.batch = Tail(loop.batch)
        /\ loop'.pc = "mark" /\ loop'.id = Head(loop.batch)
    BY <1>8 DEF LoopDispatch, TypeOK, LoopState
  <2> QED
    BY <1>1, <1>5, <1>8, <2>1 DEF LoopDispatch, AtEach
<1>9. CASE LoopAgain
  BY <1>1, <1>9 DEF LoopAgain, AtEach, TypeOK, LoopState
<1>10. CASE MarkRunning
  <2>1. loop.id \in Job /\ loop'.pc = "submit" /\ loop'.id = loop.id
        /\ loop'.batch = loop.batch
    BY <1>10 DEF MarkRunning, TypeOK, LoopState
  <2>2. k # loop.id => Live(k)
    BY <1>10, <2>1, WriteLive DEF MarkRunning, JobStatus
  <2> QED
    BY <1>0, <1>10, <2>1, <2>2 DEF MarkRunning, NoLostJob
<1>11. CASE Submit
  <2>1. loop.id \in Job /\ loop'.pc = "each" /\ loop'.batch = loop.batch
    BY <1>11 DEF Submit, TypeOK, LoopState
  <2>2. Occurs(k, queue)' <=> Occurs(k, queue) \/ k = loop.id
    BY <1>0, <1>11, <2>1, OccursAppend DEF Submit
  <2> QED
    BY <1>1, <1>11, <2>1, <2>2 DEF Submit
<1> QED
  BY <1>2, <1>3, <1>4, <1>6, <1>7, <1>8, <1>9, <1>10, <1>11 DEF LoopStep

\* A worker that takes a call off the queue loses no job.
LEMMA WorkerCarries ==
  ASSUME TypeOK, NoLostJob, NEW w \in Worker, WorkerTake(w)
  PROVE  NoLostJob'
<1> SUFFICES ASSUME up', NEW k \in Job, Live(k)' PROVE Carried(k)'
  BY DEF NoLostJob
<1> USE DEF WorkerTake, Carried, InHeap, Dispatching, Executing, Scheduling
<1>1. Carried(k)
  BY DEF NoLostJob, Live
<1>2. w \in Thread /\ queue \in Seq(Job)
  BY DEF Thread, TypeOK
<1>3. Occurs(k, queue) => k = Head(queue) \/ Occurs(k, queue)'
  <2>1. Occurs(k, queue)' <=> Occurs(k, Tail(queue))
    BY DEF Occurs
  <2> QED
    BY <1>2, <2>1, OccursTail
<1>4. frame'[w] = ExecuteCall(Head(queue))
  BY <1>2 DEF TypeOK
<1>5. \A th \in Thread : th # w => frame'[th] = frame[th]
  BY DEF TypeOK
<1>6. Executing(k) => Executing(k)'
  BY <1>5
<1>7. k = Head(queue) => Executing(k)'
  BY <1>2, <1>4 DEF ExecuteCall
<1>8. Occurs(k, loop.batch)' <=> Occurs(k, loop.batch)
  BY DEF Occurs
<1> QED
  BY <1>1, <1>3, <1>6, <1>7, <1>8

\* No step of execute, and no answer of the runner, loses a job: execute keeps
\* hold of a job until it has pushed it or its row is not live.
LEMMA ExecuteCarries ==
  ASSUME TypeOK, NoLostJob, NEW th \in Thread,
         ExecuteStep(th) \/ RunnerReturns(th)
  PROVE  NoLostJob'
<1> SUFFICES ASSUME up', NEW k \in Job, Live(k)' PROVE Carried(k)'
  BY DEF NoLostJob
<1> DEFINE Elsewhere == \/ InHeap(k) \/ Occurs(k, loop.batch) \/ Dispatching(k)
                        \/ Occurs(k, queue) \/ Scheduling(k)
<1>1. frame[th].pc # "idle" /\ up = up' /\ UNCHANGED <<loop, queue, handler>>
  BY DEF ExecuteStep, RunnerReturns, Reread, Repause, RunStart, RunSucceed,
         RunFail, Complete, Fail, SetActive, SetNext, ResetCount, CountRetry,
         SetRetryNext, SetRetryActive, Reschedule, Write, WriteAndReturn
<1>2. /\ frame[th] \in Frame /\ frame[th].id \in Job
      /\ frame[th].count \in Nat /\ frame[th].next \in Time
  BY <1>1 DEF TypeOK, Frame
<1> SUFFICES ASSUME NEW j \in Job, frame[th].id = j PROVE Carried(k)'
  BY <1>2
<1>3. ASSUME heap' = heap, Elsewhere PROVE Carried(k)'
  BY <1>1, <1>3 DEF Carried, InHeap, Dispatching, Scheduling, Occurs
\* Another thread that executes k goes on executing it.
<1>4. ASSUME NEW f \in Frame, frame' = [frame EXCEPT ![th] = f],
             NEW o \in Thread, o # th,
             frame[o].id = k, frame[o].pc \notin {"idle", "repause"}
      PROVE  Carried(k)'
  BY <1>4 DEF Carried, Executing, TypeOK
\* This thread still holds k.
<1>5. ASSUME k = j, NEW f \in Frame, frame' = [frame EXCEPT ![th] = f],
             f.id = j, f.pc \notin {"idle", "repause"}
      PROVE  Carried(k)'
  BY <1>5 DEF Carried, Executing, TypeOK
\* So a step that lets go of no live job loses none.
<1>6. ASSUME heap' = heap, NEW f \in Frame, frame' = [frame EXCEPT ![th] = f],
             k # j => Live(k),
             k = j => f.id = j /\ f.pc \notin {"idle", "repause"}
      PROVE  Carried(k)'
  <2>1. CASE k = j
    BY <1>5, <1>6, <2>1
  <2>2. CASE k # j
    <3>1. Carried(k)
      BY <1>1, <1>6, <2>2 DEF NoLostJob
    <3>2. Elsewhere \/ \E o \in Thread : o # th /\ frame[o].id = k
                             /\ frame[o].pc \notin {"idle", "repause"}
      BY <2>2, <3>1 DEF Carried, Executing
    <3> QED
      BY <1>3, <1>4, <1>6, <3>2
  <2> QED
    BY <2>1, <2>2
<1>7. NoFrame \in Frame
  BY ModelAssumption DEF NoFrame, Frame, ExecPc, Time, ModelAssumption
<1>8. \A pc \in ExecPc : LET f == [frame[th] EXCEPT !.pc = pc]
                         IN  f \in Frame /\ f.pc = pc /\ f.id = j
  BY <1>2 DEF Frame
<1>9. \A pc : Goto(th, pc) => frame' = [frame EXCEPT ![th] = [frame[th] EXCEPT !.pc = pc]]
  BY DEF TypeOK
<1>10. \A pc \in ExecPc \ {"idle", "repause"} :
         heap' = heap /\ Goto(th, pc) /\ (k # j => Live(k)) => Carried(k)'
  <2> SUFFICES ASSUME NEW pc \in ExecPc \ {"idle", "repause"}, heap' = heap,
                      Goto(th, pc), k # j => Live(k)
               PROVE  Carried(k)'
    OBVIOUS
  <2> DEFINE f == [frame[th] EXCEPT !.pc = pc]
  <2>1. f \in Frame /\ f.pc = pc /\ f.id = j
    BY <1>8
  <2>2. frame' = [frame EXCEPT ![th] = f]
    BY <1>9
  <2> HIDE DEF f
  <2> QED
    BY <1>6, <2>1, <2>2
<1>11. heap' = heap /\ Return(th) /\ (k # j => Live(k)) /\ k # j => Carried(k)'
  BY <1>6, <1>7
<1>12. ASSUME db' = db PROVE Live(k)
  BY <1>12 DEF Live
<1>13. CASE Reread(th)
  <2> DEFINE pc == AfterReread(j, db[j])
  <2>1. Live(k)
    BY <1>13, <1>12 DEF Reread
  <2>2. k = j => pc \in {"start", "fail"}
    BY <2>1 DEF Live, AfterReread, JobStatus
  <2>3. CASE pc = "return"
    BY <1>11, <1>13, <2>1, <2>2, <2>3 DEF Reread
  <2>4. CASE pc # "return"
    <3> DEFINE f == [frame[th] EXCEPT !.pc = pc, !.count = db[j].retry_count]
    <3>1. frame' = [frame EXCEPT ![th] = f] /\ heap' = heap
      BY <1>13, <2>4 DEF Reread
    <3>2. pc \in ExecPc /\ db[j].retry_count \in Nat
      BY <1>2, <2>4 DEF AfterReread, ExecPc, TypeOK, Row
    <3>3. f \in Frame /\ f.id = j /\ f.pc = pc
      BY <1>2, <3>2 DEF Frame
    <3> HIDE DEF f, pc
    <3> QED
      BY <1>6, <2>1, <2>2, <3>1, <3>3
  <2> QED
    BY <2>3, <2>4
<1>14. CASE Repause(th) \/ Complete(th) \/ Fail(th)
  <2>1. PICK s \in {"Paused", "Completed", "Failed"} : db' = UpdateStatus(db, j, s)
    BY <1>14 DEF Repause, Complete, Fail, WriteAndReturn
  <2>2. k # j
    BY <1>2, <2>1, WriteDead DEF JobStatus
  <2>3. Live(k)
    BY <1>2, <2>1, <2>2, WriteLive DEF JobStatus
  <2> QED
    BY <1>11, <1>14, <2>2, <2>3 DEF Repause, Complete, Fail, WriteAndReturn
<1>15. CASE SetActive(th) \/ SetRetryActive(th)
  <2>1. k # j => Live(k)
    BY <1>2, <1>15, WriteLive DEF SetActive, SetRetryActive, Write, JobStatus
  <2> QED
    BY <1>10, <1>15, <2>1 DEF SetActive, SetRetryActive, Write, ExecPc
<1>16. CASE SetNext(th)
  <2>1. k # j => Live(k)
    BY <1>2, <1>16, WriteLive DEF SetNext, Write
  <2> QED
    BY <1>10, <1>16, <2>1 DEF SetNext, Write, ExecPc
<1>17. CASE ResetCount(th) \/ CountRetry(th)
  <2>1. k # j => Live(k)
    <3>1. ASSUME NEW n \in Nat, db' = UpdateRetryCount(db, j, n)
          PROVE  k # j => Live(k)
      BY <3>1, WriteLive
    <3>2. /\ ResetCount(th) => db' = UpdateRetryCount(db, j, 0)
          /\ CountRetry(th) => db' = UpdateRetryCount(db, j, frame[th].count + 1)
      BY DEF ResetCount, CountRetry, Write
    <3>3. 0 \in Nat /\ frame[th].count + 1 \in Nat
      BY <1>2
    <3> QED
      BY <1>17, <3>1, <3>2, <3>3
  <2> QED
    BY <1>10, <1>17, <2>1 DEF ResetCount, CountRetry, Write, ExecPc
<1>18. CASE SetRetryNext(th)
  <2> DEFINE at == now + RetryDelay[j]
             f == [frame[th] EXCEPT !.pc = "set_retry_active", !.next = at]
  <2>1. now \in 0 .. MaxNow /\ RetryDelay[j] \in 0 .. MaxSpan
    BY <1>2, ModelAssumption DEF TypeOK, ModelAssumption
  <2>2. at \in Time
    BY <2>1, ModelAssumption DEF Time, ModelAssumption
  <2>3. db' = UpdateNextRun(db, j, at) /\ frame' = [frame EXCEPT ![th] = f]
        /\ heap' = heap
    BY <1>18 DEF SetRetryNext
  <2>4. k # j => Live(k)
    BY <1>2, <2>2, <2>3, WriteLive
  <2>5. f \in Frame /\ f.id = j /\ f.pc = "set_retry_active"
    BY <1>2, <2>2 DEF Frame, ExecPc
  <2> HIDE DEF f, at
  <2> QED
    BY <1>6, <2>3, <2>4, <2>5
<1>19. CASE RunStart(th) \/ RunFail(th)
  BY <1>10, <1>12, <1>19 DEF RunStart, RunFail, ExecPc
<1>20. CASE RunSucceed(th)
  <2> PICK n \in NextRuns(j, now) :
        IF n = NoTime \/ Kind[j] = "one_time"
        THEN Goto(th, "complete")
        ELSE frame' = [frame EXCEPT ![th] = [@ EXCEPT !.pc = "set_active", !.next = n]]
    BY <1>20 DEF RunSucceed, IsLast
  <2>1. n = NoTime \/ n \in Time
    BY <1>2, NextRunsTypes DEF TypeOK
  <2>2. Live(k) /\ heap' = heap
    BY <1>12, <1>20 DEF RunSucceed
  <2>3. CASE n = NoTime \/ Kind[j] = "one_time"
    BY <1>10, <2>2, <2>3 DEF ExecPc
  <2>4. CASE ~(n = NoTime \/ Kind[j] = "one_time")
    <3> DEFINE f == [frame[th] EXCEPT !.pc = "set_active", !.next = n]
    <3>1. frame' = [frame EXCEPT ![th] = f]
      BY <2>4
    <3>2. f \in Frame /\ f.id = j /\ f.pc = "set_active"
      BY <1>2, <2>1, <2>4 DEF Frame, ExecPc
    <3> HIDE DEF f
    <3> QED
      BY <1>6, <2>2, <3>1, <3>2
  <2> QED
    BY <2>3, <2>4
<1>21. CASE Reschedule(th)
  <2>1. Live(k) /\ Push(j, frame[th].next) /\ frame' = [frame EXCEPT ![th] = NoFrame]
    BY <1>12, <1>21 DEF Reschedule
  <2>2. InHeap(j)' /\ (InHeap(k) => InHeap(k)')
    BY <1>2, <2>1, PushCarries
  <2>3. CASE k = j
    BY <2>2, <2>3 DEF Carried
  <2>4. CASE k # j
    <3>1. Carried(k)
      BY <1>1, <2>1 DEF NoLostJob
    <3>2. Executing(k) => Carried(k)'
      BY <1>4, <1>7, <2>1, <2>4 DEF Executing
    <3>3. Elsewhere => Carried(k)'
      BY <1>1, <2>2 DEF Carried, Dispatching, Scheduling, Occurs
    <3> QED
      BY <3>1, <3>2, <3>3 DEF Carried
  <2> QED
    BY <2>3, <2>4
<1> QED
  BY <1>13, <1>14, <1>15, <1>16, <1>17, <1>18, <1>19, <1>20, <1>21
     DEF ExecuteStep, RunnerReturns

\* A handler that only starts or ends a call, or that pushes the entry of the
\* job it holds, loses no job.
LEMMA HandlerCarries ==
  ASSUME TypeOK, NoLostJob, NEW c \in Client, HandlerBegin(c) \/ HandlerStep(c)
  PROVE  NoLostJob'
<1> SUFFICES ASSUME up', NEW k \in Job, Live(k)' PROVE Carried(k)'
  BY DEF NoLostJob
<1> DEFINE Elsewhere == \/ InHeap(k) \/ Occurs(k, loop.batch) \/ Dispatching(k)
                        \/ Occurs(k, queue) \/ Executing(k)
<1>1. up = up' /\ UNCHANGED <<loop, queue, frame>>
  BY DEF HandlerBegin, HandlerStep, CreateSave, PauseFind, ResumeFind, DeleteFind,
         CallSchedule, PauseWrite, ResumeWrite, DeleteRemove
<1>2. ASSUME heap' = heap, Elsewhere PROVE Carried(k)'
  BY <1>1, <1>2 DEF Carried, InHeap, Dispatching, Executing, Occurs
\* What the other clients hold they go on holding.
<1>3. ASSUME NEW h, handler' = [handler EXCEPT ![c] = h],
             NEW d \in Client, d # c, handler[d].id = k, handler[d].pc = "schedule"
      PROVE  Carried(k)'
  BY <1>3 DEF Carried, Scheduling, TypeOK
\* So a step that drops no pending push of a live job loses none.
<1>4. ASSUME heap' = heap, NEW h, handler' = [handler EXCEPT ![c] = h],
             Live(k), handler[c].pc # "schedule"
      PROVE  Carried(k)'
  <2>1. Carried(k)
    BY <1>1, <1>4 DEF NoLostJob
  <2>2. Scheduling(k) => Carried(k)'
    BY <1>3, <1>4 DEF Scheduling
  <2> QED
    BY <1>2, <1>4, <2>1, <2>2 DEF Carried
<1>5. ASSUME db' = db PROVE Live(k)
  BY <1>5 DEF Live
<1>6. ASSUME NEW op, NEW h, BeginCall(c, op, h)
      PROVE  handler' = [handler EXCEPT ![c] = h] /\ handler[c].pc # "schedule"
  BY <1>6 DEF BeginCall
\* This client now holds the push of k.
<1>7. ASSUME NEW h, handler' = [handler EXCEPT ![c] = h],
             h.pc = "schedule", h.id = k
      PROVE  Carried(k)'
  BY <1>7 DEF Carried, Scheduling, TypeOK
<1>8. ASSUME NEW j \in Job, CreateSave(c, j) PROVE Carried(k)'
  <2> PICK n \in NextRuns(j, now) \ {NoTime} :
        /\ db' = Save(db, j, n)
        /\ BeginCall(c, "create", [pc |-> "schedule", id |-> j, next |-> n])
    BY <1>8 DEF CreateSave
  <2>1. k # j => Live(k)
    <3>1. n \in Time
      BY NextRunsTypes DEF TypeOK
    <3> QED
      BY <3>1, WriteLive
  <2>2. CASE k = j
    BY <1>6, <1>7, <2>2
  <2>3. CASE k # j
    BY <1>4, <1>6, <1>8, <2>1, <2>3 DEF CreateSave
  <2> QED
    BY <2>2, <2>3
<1>9. ASSUME NEW j \in Job, PauseFind(c, j) \/ ResumeFind(c, j) \/ DeleteFind(c, j)
      PROVE  Carried(k)'
  BY <1>4, <1>5, <1>6, <1>9 DEF PauseFind, ResumeFind, DeleteFind
<1>10. ASSUME CallSchedule(c) PROVE Carried(k)'
  <2>1. handler[c].id \in Job /\ handler[c].next \in Time
    BY <1>10 DEF CallSchedule, TypeOK, Handler
  <2>3. ASSUME NEW j \in Job, j = handler[c].id
        PROVE  InHeap(j)' /\ (InHeap(k) => InHeap(k)')
    BY <1>10, <2>1, <2>3, PushCarries DEF CallSchedule
  <2>4. Carried(k)
    BY <1>1, <1>5, <1>10 DEF CallSchedule, NoLostJob
  <2>5. CASE k = handler[c].id
    BY <2>3, <2>5 DEF Carried
  <2>6. CASE k # handler[c].id
    <3>1. Scheduling(k) => Carried(k)'
      BY <1>3, <1>10, <2>6 DEF Scheduling, CallSchedule
    <3>2. InHeap(k) => Carried(k)'
      BY <2>1, <2>3 DEF Carried
    <3> QED
      BY <1>1, <2>4, <3>1, <3>2 DEF Carried, Dispatching, Executing, Occurs
  <2> QED
    BY <2>5, <2>6
<1>11. ASSUME PauseWrite(c) \/ DeleteRemove(c) PROVE Carried(k)'
  <2>1. PICK j \in Job : j = handler[c].id
    BY <1>11 DEF PauseWrite, DeleteRemove, TypeOK
  <2>2. db' = UpdateStatus(db, j, "Paused") \/ db' = Remove(db, j)
    BY <1>11, <2>1 DEF PauseWrite, DeleteRemove
  <2>3. k # j /\ Live(k)
    BY <2>2, WriteDead, WriteLive DEF JobStatus
  <2> QED
    BY <1>4, <1>11, <2>3 DEF PauseWrite, DeleteRemove
<1>12. ASSUME ResumeWrite(c) PROVE Carried(k)'
  <2>1. PICK j \in Job : j = handler[c].id
    BY <1>12 DEF ResumeWrite, TypeOK
  <2> DEFINE h == [handler[c] EXCEPT !.pc = "schedule"]
  <2>2. handler' = [handler EXCEPT ![c] = h] /\ h.pc = "schedule" /\ h.id = j
    BY <1>12, <2>1 DEF ResumeWrite, TypeOK, Handler
  <2>3. k # j => Live(k)
    BY <1>12, <2>1, WriteLive DEF ResumeWrite, JobStatus
  <2> HIDE DEF h
  <2> QED
    BY <1>4, <1>7, <1>12, <2>2, <2>3 DEF ResumeWrite
<1> QED
  BY <1>8, <1>9, <1>10, <1>11, <1>12 DEF HandlerBegin, HandlerStep

(***************************************************************************)
(* No job is lost: whatever the interleaving of the loop, the workers and  *)
(* the handlers, and whenever the process dies and restarts, a job whose   *)
(* row is active or running is in the heap, in due_ids, in the pool's      *)
(* queue, or held by a thread that has yet to push it or end it.           *)
(***************************************************************************)
THEOREM NoJobIsLost == Spec => []NoLostJob
<1>1. Init => NoLostJob
  BY DEF Init, NoLostJob
<1>2. TypeOK /\ NoLostJob /\ [Next]_vars => NoLostJob'
  <2> SUFFICES ASSUME TypeOK, NoLostJob, [Next]_vars PROVE NoLostJob'
    OBVIOUS
  <2>1. ASSUME UNCHANGED vars PROVE NoLostJob'
    BY <2>1 DEF vars, NoLostJob, Live, Carried, InHeap, Dispatching, Executing,
                Scheduling, Occurs
  <2> QED
    BY <2>1, ProcessCarries, LoopCarries, WorkerCarries, ExecuteCarries,
       HandlerCarries DEF Next
<1> QED
  BY <1>1, <1>2, TypeCorrect, PTL DEF Spec

-----------------------------------------------------------------------------
(* Deleted jobs.                                                           *)

\* No table operation brings a removed row back.
LEMMA UpdateKeepsRemoved ==
  ASSUME TypeOK, NEW j \in Job, NEW k \in Job, db[k].status = "removed"
  PROVE  /\ \A s \in JobStatus : UpdateStatus(db, j, s)[k].status = "removed"
         /\ \A t : UpdateNextRun(db, j, t)[k].status = "removed"
         /\ \A n : UpdateRetryCount(db, j, n)[k].status = "removed"
         /\ Remove(db, j)[k].status = "removed"
BY DEF TypeOK, Row, Present, JobStatus, UpdateStatus, UpdateNextRun,
       UpdateRetryCount, Remove, Vacant

(***************************************************************************)
(* A deleted job stays deleted: no update of a run that was in flight, no  *)
(* pending pause or resume, no restart, brings its row back.               *)
(***************************************************************************)
THEOREM DeletedIsFinal == Spec => DeletedStaysDeleted
<1>1. TypeOK /\ [Next]_vars =>
        [\A j \in Job : db[j].status = "removed" => db'[j].status = "removed"]_vars
  <2> SUFFICES ASSUME TypeOK, Next, NEW k \in Job, db[k].status = "removed"
               PROVE  db'[k].status = "removed"
    OBVIOUS
  <2>1. ASSUME db' = db PROVE db'[k].status = "removed"
    BY <2>1
  <2>2. ASSUME Tick \/ Boot \/ Crash PROVE db' = db
    BY <2>2 DEF Tick, Boot, Crash
  <2>3. ASSUME LoopStep PROVE db'[k].status = "removed"
    <3>1. CASE MarkRunning
      BY <3>1, UpdateKeepsRemoved DEF MarkRunning, TypeOK, JobStatus
    <3> QED
      BY <2>1, <2>3, <3>1 DEF LoopStep, LoopLock, LoopPop, LoopUnlock, LoopSkip,
                              LoopExecute, LoopDispatch, LoopAgain, Submit
  <2>4. ASSUME NEW w \in Worker, WorkerTake(w) PROVE db' = db
    BY <2>4 DEF WorkerTake
  <2>5. ASSUME NEW th \in Thread, ExecuteStep(th) \/ RunnerReturns(th)
        PROVE  db'[k].status = "removed"
    <3> DEFINE j == frame[th].id
    <3>1. \/ db' = db
          \/ \E s \in JobStatus : db' = UpdateStatus(db, j, s)
          \/ \E t : db' = UpdateNextRun(db, j, t)
          \/ \E n : db' = UpdateRetryCount(db, j, n)
      BY <2>5 DEF ExecuteStep, RunnerReturns, Reread, Repause, RunStart,
         RunSucceed, RunFail, Complete, Fail, SetActive, SetNext, ResetCount,
         CountRetry, SetRetryNext, SetRetryActive, Reschedule, Write,
         WriteAndReturn, JobStatus
    <3>2. frame[th].pc # "idle" => j \in Job
      BY DEF TypeOK
    <3>3. frame[th].pc # "idle"
      BY <2>5 DEF ExecuteStep, RunnerReturns, Reread, Repause, RunStart,
         RunSucceed, RunFail, Complete, Fail, SetActive, SetNext, ResetCount,
         CountRetry, SetRetryNext, SetRetryActive, Reschedule, Write,
         WriteAndReturn
    <3> HIDE DEF j
    <3> QED
      BY <2>1, <3>1, <3>2, <3>3, UpdateKeepsRemoved
  <2>6. ASSUME NEW c \in Client, HandlerStep(c) PROVE db'[k].status = "removed"
    <3>1. CASE CallSchedule(c)
      BY <3>1 DEF CallSchedule
    <3>2. CASE PauseWrite(c)
      BY <3>2, UpdateKeepsRemoved DEF PauseWrite, TypeOK, JobStatus
    <3>3. CASE ResumeWrite(c)
      BY <3>3, UpdateKeepsRemoved DEF ResumeWrite, TypeOK, JobStatus
    <3>4. CASE DeleteRemove(c)
      BY <3>4, UpdateKeepsRemoved DEF DeleteRemove, TypeOK
    <3> QED
      BY <2>6, <3>1, <3>2, <3>3, <3>4 DEF HandlerStep
  <2>7. ASSUME NEW c \in Client, HandlerBegin(c) PROVE db'[k].status = "removed"
    <3>1. ASSUME NEW j \in Job, CreateSave(c, j) PROVE db'[k].status = "removed"
      BY <3>1 DEF CreateSave, Save, TypeOK, Row
    <3>2. ASSUME NEW j \in Job, PauseFind(c, j) \/ ResumeFind(c, j) \/ DeleteFind(c, j)
          PROVE  db' = db
      BY <3>2 DEF PauseFind, ResumeFind, DeleteFind
    <3> QED
      BY <2>1, <2>7, <3>1, <3>2 DEF HandlerBegin
  <2> QED
    BY <2>1, <2>2, <2>3, <2>4, <2>5, <2>6, <2>7 DEF Next
<1> QED
  BY <1>1, TypeCorrect, PTL DEF Spec, DeletedStaysDeleted

-----------------------------------------------------------------------------
(* Failed jobs, where the loop thread runs execute itself.                 *)

\* Nothing reaches the pool.
PoolUnused ==
  /\ loop.pc \in {"wait", "pop", "each"}
  /\ queue = <<>>
  /\ \A w \in Worker : frame[w].pc = "idle"

\* From the second reading of its row to the update that ends the run, the
\* loop thread knows the retry count the table shows, if the row is still there.
CountIsCurrent ==
  LET f == frame[Loop] IN
    /\ f.pc \notin {"idle", "reread"} => db[f.id].status # "unused"
    /\ f.pc \in {"start", "running", "fail", "count_retry"} /\ Present(db, f.id)
         => f.count = db[f.id].retry_count

\* The loop thread runs no job that has failed.
RunsUnfailed == frame[Loop].pc # "idle" => db[frame[Loop].id].status # "Failed"

\* The loop thread gives up a job only for one of the two reasons.
GivesUp ==
  LET f == frame[Loop] IN
    f.pc = "fail" => f.id \in Unparsable \/ f.count >= MaxRetries[f.id]

\* The inductive invariant behind FailedMeansExhausted.
FailedIInv ==
  /\ PoolUnused
  /\ CountIsCurrent
  /\ RunsUnfailed
  /\ GivesUp
  /\ FailedMeansExhausted

\* A write to the table that fails no job, starts none over and counts nothing.
Mild(k) ==
  /\ db'[k].status = "Failed" => db[k].status = "Failed"
  /\ db'[k].status = "unused" => db[k].status = "unused"
  /\ Present(db', k) =>
       \/ db[k].status = "unused"
       \/ Present(db, k) /\ db'[k].retry_count = db[k].retry_count

\* All writes are mild but a failure and those to the retry count.
LEMMA MildWrites ==
  ASSUME TypeOK, NEW j \in Job, NEW k \in Job
  PROVE  /\ db' = db => Mild(k)
         /\ \A s \in JobStatus \ {"Failed"} : db' = UpdateStatus(db, j, s) => Mild(k)
         /\ \A t \in Time : db' = UpdateNextRun(db, j, t) => Mild(k)
         /\ db' = Remove(db, j) => Mild(k)
         /\ \A t \in Time : db' = Save(db, j, t) /\ db[j].status = "unused" => Mild(k)
<1> USE DEF TypeOK, Row, Mild, Present, JobStatus
<1>1. db' = db => Mild(k)
  OBVIOUS
<1>2. ASSUME NEW s \in JobStatus \ {"Failed"}, db' = UpdateStatus(db, j, s)
      PROVE  Mild(k)
  BY <1>2 DEF UpdateStatus
<1>3. ASSUME NEW t \in Time, db' = UpdateNextRun(db, j, t)
      PROVE  Mild(k)
  BY <1>3 DEF UpdateNextRun
<1>4. db' = Remove(db, j) => Mild(k)
  BY DEF Remove, Vacant
<1>5. ASSUME NEW t \in Time, db' = Save(db, j, t), db[j].status = "unused"
      PROVE  Mild(k)
  BY <1>5 DEF Save
<1> QED
  BY <1>1, <1>2, <1>3, <1>4, <1>5

\* A mild write, while the loop thread stays where it is or leaves execute.
LEMMA MildStays ==
  ASSUME TypeOK, FailedIInv, \A k \in Job : Mild(k), PoolUnused',
         frame'[Loop] = frame[Loop] \/ frame'[Loop].pc = "idle"
  PROVE  FailedIInv'
<1> USE DEF FailedIInv, Mild
<1>1. FailedMeansExhausted'
  BY DEF FailedMeansExhausted, Present, JobStatus
<1>2. CASE frame'[Loop].pc = "idle"
  BY <1>1, <1>2 DEF CountIsCurrent, RunsUnfailed, GivesUp
<1>3. CASE frame'[Loop] = frame[Loop] /\ frame[Loop].pc # "idle"
  <2>1. frame[Loop].id \in Job
    BY <1>3 DEF TypeOK, Thread
  <2> QED
    BY <1>1, <1>3, <2>1 DEF CountIsCurrent, RunsUnfailed, GivesUp
<1> QED
  BY <1>2, <1>3

\* A mild write, while the loop thread moves on inside a call of execute.
LEMMA MildMoves ==
  ASSUME TypeOK, FailedIInv, \A k \in Job : Mild(k), PoolUnused',
         frame[Loop].pc \notin {"idle", "reread"},
         frame'[Loop].id = frame[Loop].id,
         frame'[Loop].pc \in {"start", "running", "fail", "count_retry"} =>
           /\ frame[Loop].pc \in {"start", "running", "fail", "count_retry"}
           /\ frame'[Loop].count = frame[Loop].count,
         frame'[Loop].pc = "fail" =>
           \/ frame[Loop].id \in Unparsable
           \/ frame[Loop].count >= MaxRetries[frame[Loop].id]
  PROVE  FailedIInv'
<1> USE DEF FailedIInv, Mild
<1>1. FailedMeansExhausted'
  BY DEF FailedMeansExhausted, Present, JobStatus
<1>2. frame[Loop].id \in Job
  BY DEF TypeOK, Thread
<1>3. CountIsCurrent'
  BY <1>2 DEF CountIsCurrent
<1>4. RunsUnfailed'
  BY <1>2 DEF RunsUnfailed
<1>5. GivesUp'
  BY <1>2 DEF GivesUp
<1> QED
  BY <1>1, <1>3, <1>4, <1>5

\* The loop thread's own steps through execute.
LEMMA ExecuteFailed ==
  ASSUME TypeOK, FailedIInv, ExecuteStep(Loop) \/ RunnerReturns(Loop)
  PROVE  FailedIInv'
<1> DEFINE f == frame[Loop]
<1> DEFINE j == f.id
<1>1. Loop \in Thread /\ Loop \notin Worker /\ Worker \subseteq Thread
  BY SystemAssumption DEF SystemAssumption, Thread
<1>2. /\ f.pc # "idle"
      /\ \A w \in Worker : frame'[w] = frame[w]
      /\ loop' = loop /\ queue' = queue
  BY <1>1 DEF TypeOK, ExecuteStep, RunnerReturns, Reread, Repause, RunStart,
     RunSucceed, RunFail, Complete, Fail, SetActive, SetNext, ResetCount,
     CountRetry, SetRetryNext, SetRetryActive, Reschedule, Write, WriteAndReturn
<1>3. PoolUnused'
  BY <1>2 DEF FailedIInv, PoolUnused
<1>4. j \in Job /\ f \in Frame /\ f.count \in Nat /\ f.next \in Time
  BY <1>1, <1>2 DEF TypeOK, Frame
<1>5. /\ db[j].status # "Failed"
      /\ f.pc # "reread" => db[j].status # "unused"
      /\ f.pc \in {"start", "running", "fail", "count_retry"} /\ Present(db, j)
           => f.count = db[j].retry_count
      /\ f.pc = "fail" => j \in Unparsable \/ f.count >= MaxRetries[j]
  BY <1>2 DEF FailedIInv, CountIsCurrent, RunsUnfailed, GivesUp
<1>6. ASSUME NEW pc \in ExecPc, Goto(Loop, pc) PROVE frame'[Loop] = [f EXCEPT !.pc = pc]
  BY <1>1, <1>6 DEF TypeOK
<1>7. Return(Loop) => frame'[Loop].pc = "idle"
  BY <1>1 DEF TypeOK, NoFrame
<1>8. CASE Repause(Loop) \/ Complete(Loop) \/ Reschedule(Loop)
  <2>1. \/ db' = db
        \/ \E s \in JobStatus \ {"Failed"} : db' = UpdateStatus(db, j, s)
    BY <1>8 DEF Repause, Complete, Reschedule, WriteAndReturn, JobStatus
  <2>2. frame'[Loop].pc = "idle"
    BY <1>7, <1>8 DEF Repause, Complete, Reschedule, WriteAndReturn
  <2> QED
    BY <1>3, <1>4, <2>1, <2>2, MildWrites, MildStays
<1>9. CASE RunStart(Loop) \/ SetActive(Loop) \/ SetNext(Loop) \/ SetRetryActive(Loop)
  <2>1. \/ db' = db
        \/ \E s \in JobStatus \ {"Failed"} : db' = UpdateStatus(db, j, s)
        \/ \E t \in Time : db' = UpdateNextRun(db, j, t)
    BY <1>4, <1>9 DEF RunStart, SetActive, SetNext, SetRetryActive, Write, JobStatus
  <2>2. /\ f.pc \in {"start", "set_active", "set_next", "set_retry_active"}
        /\ \E pc \in {"running", "set_next", "reset_count", "reschedule"} :
             /\ pc = "running" => f.pc = "start"
             /\ frame'[Loop] = [f EXCEPT !.pc = pc]
    BY <1>6, <1>9 DEF RunStart, SetActive, SetNext, SetRetryActive, Write, ExecPc
  <2>3. \A k \in Job : Mild(k)
    BY <1>4, <2>1, MildWrites
  <2> QED
    BY <1>3, <1>4, <2>2, <2>3, MildMoves DEF Frame
<1>10. CASE SetRetryNext(Loop)
  <2> DEFINE at == now + RetryDelay[j]
  <2>1. at \in Time
    <3>1. now \in 0 .. MaxNow /\ RetryDelay[j] \in 0 .. MaxSpan
      BY <1>4, ModelAssumption DEF TypeOK, ModelAssumption
    <3> QED
      BY <3>1, ModelAssumption DEF Time, ModelAssumption
  <2>2. /\ f.pc = "set_retry_next"
        /\ db' = UpdateNextRun(db, j, at)
        /\ frame'[Loop] = [f EXCEPT !.pc = "set_retry_active", !.next = at]
    BY <1>1, <1>10 DEF SetRetryNext, TypeOK
  <2>3. \A k \in Job : Mild(k)
    BY <1>4, <2>1, <2>2, MildWrites
  <2> HIDE DEF at
  <2> QED
    BY <1>3, <1>4, <2>2, <2>3, MildMoves DEF Frame
<1>11. CASE RunSucceed(Loop)
  <2>1. PICK n \in NextRuns(j, now) :
          IF IsLast(j, n)
          THEN Goto(Loop, "complete")
          ELSE frame' = [frame EXCEPT ![Loop] = [@ EXCEPT !.pc = "set_active", !.next = n]]
    BY <1>11 DEF RunSucceed
  <2>2. /\ f.pc = "running" /\ db' = db
        /\ frame'[Loop].id = j
        /\ frame'[Loop].pc \in {"complete", "set_active"}
    <3>1. CASE IsLast(j, n)
      BY <1>4, <1>6, <1>11, <2>1, <3>1 DEF RunSucceed, ExecPc, Frame
    <3>2. CASE ~IsLast(j, n)
      <4>1. frame' = [frame EXCEPT ![Loop] = [@ EXCEPT !.pc = "set_active", !.next = n]]
        BY <2>1, <3>2
      <4>2. frame'[Loop] = [f EXCEPT !.pc = "set_active", !.next = n]
        BY <1>1, <4>1 DEF TypeOK
      <4> QED
        BY <1>4, <1>11, <4>2 DEF RunSucceed, Frame
    <3> QED
      BY <3>1, <3>2
  <2>3. \A k \in Job : Mild(k)
    BY <1>4, <2>2, MildWrites
  <2> QED
    BY <1>3, <2>2, <2>3, MildMoves
<1>12. CASE RunFail(Loop)
  <2>1. /\ f.pc = "running" /\ db' = db
        /\ RetryLeft(Loop) => frame'[Loop] = [f EXCEPT !.pc = "count_retry"]
        /\ ~RetryLeft(Loop) => frame'[Loop] = [f EXCEPT !.pc = "fail"]
    BY <1>6, <1>12 DEF RunFail, ExecPc
  <2>2. ~RetryLeft(Loop) => f.count >= MaxRetries[j]
    BY <1>4, ModelAssumption DEF RetryLeft, ModelAssumption
  <2>3. \A k \in Job : Mild(k)
    BY <1>4, <2>1, MildWrites
  <2> QED
    BY <1>3, <1>4, <2>1, <2>2, <2>3, MildMoves DEF Frame
<1>13. CASE Reread(Loop)
  <2>1. db' = db /\ f.pc = "reread" /\ \A k \in Job : Mild(k)
    BY <1>4, <1>13, MildWrites DEF Reread
  <2>2. CASE AfterReread(j, db[j]) = "return"
    BY <1>3, <1>7, <1>13, <2>1, <2>2, MildStays DEF Reread
  <2>3. CASE AfterReread(j, db[j]) # "return"
    <3> DEFINE pc == AfterReread(j, db[j])
    <3>1. /\ pc = "fail" => j \in Unparsable
          /\ db[j].status # "unused"
      BY <2>3 DEF AfterReread, JobStatus
    <3>2. frame'[Loop] = [f EXCEPT !.pc = pc, !.count = db[j].retry_count]
      BY <1>1, <1>13, <2>3 DEF Reread, TypeOK
    <3>3. /\ frame'[Loop].pc = pc /\ frame'[Loop].id = j
          /\ frame'[Loop].count = db[j].retry_count
      BY <1>4, <3>2 DEF Frame
    <3> HIDE DEF pc
    <3>4. CountIsCurrent' /\ RunsUnfailed' /\ GivesUp'
      BY <1>5, <2>1, <3>1, <3>3 DEF CountIsCurrent, RunsUnfailed, GivesUp
    <3> QED
      BY <1>3, <2>1, <3>4 DEF FailedIInv, FailedMeansExhausted
  <2> QED
    BY <2>2, <2>3
<1>14. CASE Fail(Loop)
  <2>1. /\ f.pc = "fail" /\ frame'[Loop].pc = "idle"
        /\ db' = UpdateStatus(db, j, "Failed")
    BY <1>7, <1>14 DEF Fail, WriteAndReturn
  <2>2. FailedMeansExhausted'
    BY <1>4, <1>5, <2>1
       DEF FailedIInv, FailedMeansExhausted, UpdateStatus, Present, TypeOK, Row
  <2> QED
    BY <1>3, <2>1, <2>2 DEF FailedIInv, CountIsCurrent, RunsUnfailed, GivesUp
<1>15. CASE ResetCount(Loop) \/ CountRetry(Loop)
  <2>1. PICK n \in Nat : db' = UpdateRetryCount(db, j, n)
    BY <1>4, <1>15 DEF ResetCount, CountRetry, Write
  <2>2. /\ frame'[Loop].id = j
        /\ frame'[Loop].pc \in {"reschedule", "set_retry_next"}
        /\ f.pc # "reread"
    BY <1>4, <1>6, <1>15 DEF ResetCount, CountRetry, Write, ExecPc, Frame
  <2>3. /\ \A k \in Job : db'[k].status = db[k].status
        /\ \A k \in Job : k # j => db'[k].retry_count = db[k].retry_count
    BY <1>4, <2>1 DEF UpdateRetryCount, TypeOK, Row
  <2>4. FailedMeansExhausted'
    BY <1>5, <2>3 DEF FailedIInv, FailedMeansExhausted
  <2> QED
    BY <1>3, <1>4, <1>5, <2>2, <2>3, <2>4
       DEF FailedIInv, CountIsCurrent, RunsUnfailed, GivesUp
<1> QED
  BY <1>8, <1>9, <1>10, <1>11, <1>12, <1>13, <1>14, <1>15
     DEF ExecuteStep, RunnerReturns

\* The loop's steps outside execute.
LEMMA LoopFailed ==
  ASSUME Pooled = FALSE, TypeOK, FailedIInv, LoopStep
  PROVE  FailedIInv'
<1>1. Loop \in Thread /\ Loop \notin Worker
  BY SystemAssumption DEF SystemAssumption, Thread
<1>2. db' = db /\ queue' = <<>> /\ loop'.pc \in {"wait", "pop", "each"}
  BY DEF FailedIInv, PoolUnused, TypeOK, LoopState, LoopStep, LoopLock, LoopPop,
         LoopUnlock, LoopSkip, LoopExecute, LoopDispatch, LoopAgain, MarkRunning,
         Submit
<1>3. \A k \in Job : Mild(k)
  BY <1>2, MildWrites
<1>4. CASE LoopExecute
  <2> DEFINE j == Head(loop.batch)
  <2>1. j \in Job /\ db[j].status # "Failed"
    BY <1>4, HeadTailProperties DEF LoopExecute, Fireable, TypeOK, LoopState
  <2>2. frame' = [frame EXCEPT ![Loop] = ExecuteCall(j)]
    BY <1>4 DEF LoopExecute
  <2>3. PoolUnused' /\ frame'[Loop].pc = "reread" /\ frame'[Loop].id = j
    BY <1>1, <1>2, <2>2 DEF FailedIInv, PoolUnused, TypeOK, ExecuteCall
  <2> HIDE DEF j
  <2> QED
    BY <1>2, <2>1, <2>3
       DEF FailedIInv, CountIsCurrent, RunsUnfailed, GivesUp, FailedMeansExhausted
<1>5. CASE ~LoopExecute
  <2>1. frame' = frame
    BY <1>5 DEF FailedIInv, PoolUnused, LoopStep, LoopLock, LoopPop, LoopUnlock,
                LoopSkip, LoopDispatch, LoopAgain, MarkRunning, Submit
  <2>2. PoolUnused'
    BY <1>2, <2>1 DEF FailedIInv, PoolUnused
  <2> QED
    BY <1>3, <2>1, <2>2, MildStays
<1> QED
  BY <1>4, <1>5

\* A JobService handler fails no job and counts no retry.
LEMMA HandlerFailed ==
  ASSUME TypeOK, FailedIInv, NEW c \in Client, HandlerBegin(c) \/ HandlerStep(c)
  PROVE  FailedIInv'
<1>1. frame' = frame /\ loop' = loop /\ queue' = queue
  BY DEF HandlerBegin, HandlerStep, CreateSave, PauseFind, ResumeFind, DeleteFind,
         CallSchedule, PauseWrite, ResumeWrite, DeleteRemove
<1>2. \A k \in Job : Mild(k)
  <2>1. ASSUME NEW j \in Job, CreateSave(c, j) PROVE \A k \in Job : Mild(k)
    <3>1. PICK n \in NextRuns(j, now) \ {NoTime} : db' = Save(db, j, n)
      BY <2>1 DEF CreateSave
    <3>2. n \in Time
      BY NextRunsTypes DEF TypeOK
    <3> QED
      BY <2>1, <3>1, <3>2, MildWrites DEF CreateSave
  <2>2. ASSUME db' = db PROVE \A k \in Job : Mild(k)
    BY <2>2, MildWrites
  <2>3. ASSUME PauseWrite(c) \/ ResumeWrite(c) \/ DeleteRemove(c)
        PROVE  \A k \in Job : Mild(k)
    <3>1. handler[c].id \in Job
      BY <2>3 DEF PauseWrite, ResumeWrite, DeleteRemove, TypeOK
    <3> QED
      BY <2>3, <3>1, MildWrites DEF PauseWrite, ResumeWrite, DeleteRemove, JobStatus
  <2> QED
    BY <2>1, <2>2, <2>3 DEF HandlerBegin, HandlerStep, PauseFind, ResumeFind,
                            DeleteFind, CallSchedule
<1>3. PoolUnused'
  BY <1>1 DEF FailedIInv, PoolUnused
<1> QED
  BY <1>1, <1>2, <1>3, MildStays

(***************************************************************************)
(* Where the loop thread runs execute, as Scheduler.cpp does, execute      *)
(* gives up on a job only with every retry of its policy used, or because  *)
(* its stored schedule is bad, whatever the clients do and whenever the    *)
(* process dies between the writes of a run.                               *)
(***************************************************************************)
THEOREM FailedIsExhausted ==
  ASSUME Pooled = FALSE
  PROVE  Spec => []FailedMeansExhausted
<1>1. Init => FailedIInv
  BY DEF Init, FailedIInv, PoolUnused, CountIsCurrent, RunsUnfailed, GivesUp,
         FailedMeansExhausted, LoopStart, NoFrame, Vacant, Thread
<1>2. TypeOK /\ FailedIInv /\ [Next]_vars => FailedIInv'
  <2> SUFFICES ASSUME TypeOK, FailedIInv, [Next]_vars PROVE FailedIInv'
    OBVIOUS
  <2>1. ASSUME db' = db, frame' = frame, loop' = loop, queue' = queue
        PROVE  FailedIInv'
    BY <2>1 DEF FailedIInv, PoolUnused, CountIsCurrent, RunsUnfailed, GivesUp,
                FailedMeansExhausted, Present
  <2>2. CASE UNCHANGED vars \/ Tick \/ Boot
    BY <2>1, <2>2 DEF vars, Tick, Boot
  <2>3. CASE Crash
    BY <2>3 DEF Crash, FailedIInv, PoolUnused, CountIsCurrent, RunsUnfailed,
                GivesUp, FailedMeansExhausted, LoopStart, NoFrame, Thread
  <2>4. ASSUME NEW w \in Worker, WorkerTake(w) PROVE FALSE
    BY <2>4 DEF WorkerTake, FailedIInv, PoolUnused
  <2>5. ASSUME NEW th \in Thread, ExecuteStep(th) \/ RunnerReturns(th)
        PROVE  FailedIInv'
    <3>1. frame[th].pc # "idle"
      BY <2>5 DEF ExecuteStep, RunnerReturns, Reread, Repause, RunStart,
         RunSucceed, RunFail, Complete, Fail, SetActive, SetNext, ResetCount,
         CountRetry, SetRetryNext, SetRetryActive, Reschedule, Write,
         WriteAndReturn
    <3>2. th = Loop
      BY <3>1 DEF FailedIInv, PoolUnused, Thread
    <3> QED
      BY <2>5, <3>2, ExecuteFailed
  <2> QED
    BY <2>2, <2>3, <2>4, <2>5, LoopFailed, HandlerFailed DEF Next
<1>3. FailedIInv => FailedMeansExhausted
  BY DEF FailedIInv
<1> QED
  BY <1>1, <1>2, <1>3, TypeCorrect, PTL DEF Spec

=============================================================================

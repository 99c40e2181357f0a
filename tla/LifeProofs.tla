------------------------------ MODULE LifeProofs -------------------------------
(***************************************************************************)
(* The service implements JobLife as long as nobody calls resume_job: from *)
(* where one job stands, all threads together are one sequential machine.  *)
(***************************************************************************)
EXTENDS PlaceProofs

USE DEF Goto, Return

-----------------------------------------------------------------------------
(* What a thread inside execute knows of its job's row.                    *)

RunKnows(th) ==
  LET f == frame[th]
      j == f.id
  IN  /\ f.pc = "repause" => db[j].status \in {"Paused", "removed"}
      /\ f.pc \in {"start", "running", "count_retry", "fail"} /\ Present(db, j)
           => f.count = db[j].retry_count
      /\ f.pc = "count_retry" => f.count + 1 <= MaxRetries[j]
      /\ f.pc = "fail" => j \in Unparsable \/ f.count >= MaxRetries[j]
      /\ f.pc = "complete" => Kind[j] # "interval"
      /\ f.pc = "set_active" => Kind[j] # "one_time"
      /\ f.pc \in {"set_active", "set_next"} /\ Present(db, j)
           => db[j].next_run <= f.next

RunInv == \A th \in Thread : frame[th].id \in Job => RunKnows(th)

\* Nobody has moved job j's row on, or taken back a pause or a delete.
RowKept(j) ==
  /\ Present(db', j) => /\ Present(db, j)
                        /\ db'[j].retry_count = db[j].retry_count
                        /\ db'[j].next_run = db[j].next_run
  /\ db[j].status \in {"Paused", "removed"} => db'[j].status \in {"Paused", "removed"}

\* What a thread knows stays true while it stays where it is and its row is kept.
LEMMA RunKnowsStays ==
  ASSUME NEW th \in Thread, RunKnows(th), frame'[th] = frame[th], RowKept(frame[th].id)
  PROVE  RunKnows(th)'
BY DEF RunKnows, RowKept, Present

\* A table operation keeps the row of every other job, and a pause or a delete
\* keeps the row of its own.
LEMMA KeptRows ==
  ASSUME TypeOK, NEW j \in Job, NEW k \in Job
  PROVE  /\ db' = db => RowKept(k)
         /\ \A s \in JobStatus : db' = UpdateStatus(db, j, s) /\ (k # j \/ s = "Paused")
              => RowKept(k)
         /\ \A t \in Time : db' = UpdateNextRun(db, j, t) /\ k # j => RowKept(k)
         /\ \A n \in Nat : db' = UpdateRetryCount(db, j, n) /\ k # j => RowKept(k)
         /\ \A t \in Time : db' = Save(db, j, t) /\ k # j => RowKept(k)
         /\ db' = Remove(db, j) => RowKept(k)
<1> USE DEF RowKept, Present, Row, JobStatus
<1> db \in [Job -> Row]
  BY DEF TypeOK
<1>1. \A s \in JobStatus : db' = UpdateStatus(db, j, s) /\ (k # j \/ s = "Paused")
        => RowKept(k)
  BY DEF UpdateStatus
<1>2. \A t \in Time : db' = UpdateNextRun(db, j, t) /\ k # j => RowKept(k)
  BY DEF UpdateNextRun
<1>3. \A n \in Nat : db' = UpdateRetryCount(db, j, n) /\ k # j => RowKept(k)
  BY DEF UpdateRetryCount
<1>4. \A t \in Time : db' = Save(db, j, t) /\ k # j => RowKept(k)
  BY DEF Save
<1>5. db' = Remove(db, j) => RowKept(k)
  BY DEF Remove, Vacant
<1> QED
  BY <1>1, <1>2, <1>3, <1>4, <1>5

\* The answers of a schedule: later than the moment it is asked, or none; an
\* interval always answers.
LEMMA NextRunIsLater ==
  ASSUME NEW j \in Job, NEW n \in NextRuns(j, now), now \in 0 .. MaxNow
  PROVE  /\ n # NoTime => n > now /\ n \in Time
         /\ Kind[j] = "interval" => n # NoTime
<1>1. /\ Kind[j] \in {"one_time", "interval", "cron"}
      /\ Period[j] \in 1 .. MaxSpan /\ MaxSpan \in Nat /\ MaxNow \in Nat
      /\ RunAt[j] \in Time
  BY ModelAssumption DEF ModelAssumption
<1>2. CASE Kind[j] = "one_time"
  BY <1>1, <1>2 DEF NextRuns, OneTimeRuns, NoTime, Time
<1>3. CASE Kind[j] = "interval"
  BY <1>1, <1>3 DEF NextRuns, IntervalRuns, NoTime, Time
<1>4. CASE Kind[j] = "cron"
  BY <1>1, <1>4 DEF NextRuns, CronRuns, NoTime, Time
<1> QED
  BY <1>1, <1>2, <1>3, <1>4

\* What a thread knows after its own step: it has just read the row, or been
\* answered by the runner, or written the row.
LEMMA RunKnowsMoves ==
  ASSUME TypeOK, TimeInv, NEW th \in Thread, ExecuteStep(th) \/ RunnerReturns(th),
         RunKnows(th), frame'[th].id \in Job
  PROVE  RunKnows(th)'
<1> DEFINE j == frame[th].id
<1>1. /\ j \in Job /\ frame \in [Thread -> Frame] /\ frame[th] \in Frame
      /\ frame[th].count \in Nat /\ MaxRetries[j] \in Int
      /\ db \in [Job -> Row] /\ db[j] \in Row /\ now \in 0 .. MaxNow
  BY ExecuteMoves, ModelAssumption DEF TypeOK, Frame, ModelAssumption
<1>2. CASE Repause(th) \/ Complete(th) \/ Fail(th) \/ Reschedule(th)
  <2>1. frame'[th].id = NoJob
    BY <1>1, <1>2 DEF Repause, Complete, Fail, Reschedule, WriteAndReturn, NoFrame
  <2> QED
    BY <2>1, SystemAssumption DEF SystemAssumption
<1>3. CASE Reread(th)
  <2> DEFINE pc == AfterReread(j, db[j])
  <2>1. CASE pc = "return"
    <3>1. frame'[th].id = NoJob
      BY <1>1, <1>3, <2>1 DEF Reread, NoFrame
    <3> QED
      BY <3>1, SystemAssumption DEF SystemAssumption
  <2>2. CASE pc # "return"
    <3>1. \/ pc = "repause" /\ db[j].status = "Paused"
          \/ pc = "fail" /\ j \in Unparsable
          \/ pc = "start"
      BY <2>2 DEF AfterReread
    <3> HIDE DEF pc
    <3>2. /\ frame'[th] = [frame[th] EXCEPT !.pc = pc, !.count = db[j].retry_count]
          /\ db' = db
      BY <1>1, <1>3, <2>2 DEF Reread, pc
    <3>3. frame'[th].pc = pc /\ frame'[th].count = db[j].retry_count /\ frame'[th].id = j
      BY <1>1, <3>2 DEF Frame
    <3> QED
      BY <3>1, <3>2, <3>3 DEF RunKnows
  <2> QED
    BY <2>1, <2>2
<1>4. CASE RunStart(th)
  <2>1. /\ frame[th].pc = "start" /\ frame'[th].pc = "running" /\ db' = db
        /\ frame'[th].count = frame[th].count /\ frame'[th].id = j
    BY <1>1, <1>4 DEF RunStart, Frame
  <2> QED
    BY <2>1 DEF RunKnows, Present
<1>5. CASE RunSucceed(th)
  <2>1. PICK n \in NextRuns(j, now) :
          IF IsLast(j, n)
          THEN frame' = [frame EXCEPT ![th].pc = "complete"]
          ELSE frame' = [frame EXCEPT ![th] = [@ EXCEPT !.pc = "set_active", !.next = n]]
    BY <1>5 DEF RunSucceed
  <2>2. frame[th].pc = "running" /\ db' = db /\ now' = now
    BY <1>5 DEF RunSucceed
  <2>3. (n # NoTime => n > now) /\ (Kind[j] = "interval" => n # NoTime)
    BY <1>1, NextRunIsLater
  <2>4. CASE IsLast(j, n)
    <3>1. frame'[th].pc = "complete" /\ frame'[th].id = j
      BY <1>1, <2>1, <2>4 DEF Frame
    <3>2. Kind[j] # "interval"
      BY <2>3, <2>4 DEF IsLast
    <3> QED
      BY <3>1, <3>2 DEF RunKnows
  <2>5. CASE ~IsLast(j, n)
    <3>1. frame'[th].pc = "set_active" /\ frame'[th].id = j /\ frame'[th].next = n
      BY <1>1, <2>1, <2>5 DEF Frame
    <3>2. Kind[j] # "one_time" /\ n > now /\ n \in Time
      BY <1>1, <2>3, <2>5, NextRunIsLater DEF IsLast
    <3>3. Present(db, j) => db[j].next_run <= now
      BY <1>1, <2>2 DEF TimeInv, Knows, Popped
    <3>4. Present(db, j) => db[j].next_run <= n
      BY <1>1, <3>2, <3>3 DEF Row, Time
    <3> QED
      BY <2>2, <3>1, <3>2, <3>4 DEF RunKnows, Present
  <2> QED
    BY <2>4, <2>5
<1>6. CASE RunFail(th)
  <2>1. /\ frame[th].pc = "running" /\ db' = db
        /\ frame'[th].pc = IF RetryLeft(th) THEN "count_retry" ELSE "fail"
        /\ frame'[th].count = frame[th].count /\ frame'[th].id = j
    BY <1>1, <1>6 DEF RunFail, Frame
  <2> QED
    BY <1>1, <2>1 DEF RunKnows, RetryLeft, Present
<1>7. CASE SetActive(th)
  <2>1. /\ frame[th].pc = "set_active" /\ frame'[th].pc = "set_next"
        /\ frame'[th].next = frame[th].next /\ frame'[th].id = j
        /\ db' = UpdateStatus(db, j, "Active")
    BY <1>1, <1>7 DEF SetActive, Write, Frame
  <2>2. SameTime(j)
    BY <1>1, <2>1, TableTimes DEF JobStatus
  <2> QED
    BY <2>1, <2>2 DEF RunKnows, SameTime, Present
<1>8. CASE \/ SetNext(th) \/ ResetCount(th) \/ CountRetry(th) \/ SetRetryNext(th)
           \/ SetRetryActive(th)
  <2>1. frame'[th].pc \in {"reset_count", "reschedule", "set_retry_next", "set_retry_active"}
    BY <1>1, <1>8 DEF SetNext, ResetCount, CountRetry, SetRetryNext, SetRetryActive, Write, Frame
  <2> QED
    BY <2>1 DEF RunKnows
<1> QED
  BY <1>2, <1>3, <1>4, <1>5, <1>6, <1>7, <1>8 DEF ExecuteStep, RunnerReturns

\* What all threads know after a step of execute.
LEMMA ExecuteRuns ==
  ASSUME TypeOK, PlaceInv, TimeInv, RunInv, NEW th \in Thread,
         ExecuteStep(th) \/ RunnerReturns(th)
  PROVE  RunInv'
<1> DEFINE j == frame[th].id
<1>1. j \in Job /\ frame \in [Thread -> Frame] /\ NoJob \notin Job
  BY ExecuteMoves, SystemAssumption DEF TypeOK, SystemAssumption
<1>2. PICK f \in Frame : frame' = [frame EXCEPT ![th] = f]
  BY ExecuteMoves
<1> SUFFICES ASSUME NEW x \in Thread, frame'[x].id \in Job PROVE RunKnows(x)'
  BY DEF RunInv
<1>3. CASE x = th
  BY <1>1, <1>3, RunKnowsMoves DEF RunInv
<1>4. CASE x # th
  <2>1. frame'[x] = frame[x] /\ RunKnows(x)
    BY <1>1, <1>2, <1>4 DEF RunInv
  <2>2. frame[x].id # j
    BY <1>1, <1>4, OnlyThere
  <2>3. RowKept(frame[x].id)
    BY <1>1, <2>1, <2>2, ExecuteWrites, KeptRows
  <2> QED
    BY <2>1, <2>3, RunKnowsStays
<1> QED
  BY <1>3, <1>4

\* Nobody but its own thread moves on the row of a job in execute.
LEMMA RunsInvariant ==
  ASSUME "resume" \notin Ops
  PROVE  Spec => []RunInv
<1>1. Init => RunInv
  BY SystemAssumption DEF Init, RunInv, NoFrame, SystemAssumption
<1>2. TypeOK /\ PlaceInv /\ TimeInv /\ RunInv /\ [Next]_vars => RunInv'
  <2> SUFFICES ASSUME TypeOK, PlaceInv, TimeInv, RunInv, [Next]_vars PROVE RunInv'
    OBVIOUS
  <2> NoJob \notin Job /\ frame \in [Thread -> Frame]
    BY SystemAssumption DEF SystemAssumption, TypeOK
\* The threads stay where they are, or have just been called.
  <2>1. ASSUME \A x \in Thread : frame'[x].id \in Job =>
                 \/ frame'[x] = frame[x] /\ RowKept(frame[x].id)
                 \/ frame'[x].pc = "reread"
        PROVE  RunInv'
    <3> SUFFICES ASSUME NEW x \in Thread, frame'[x].id \in Job PROVE RunKnows(x)'
      BY DEF RunInv
    <3>1. CASE frame'[x].pc = "reread"
      BY <3>1 DEF RunKnows
    <3>2. CASE frame'[x] = frame[x] /\ RowKept(frame[x].id)
      BY <3>2, RunKnowsStays DEF RunInv
    <3> QED
      BY <2>1, <3>1, <3>2
  <2>2. CASE UNCHANGED vars \/ Tick \/ Boot
    <3>1. frame' = frame /\ db' = db
      BY <2>2 DEF vars, Tick, Boot
    <3> QED
      BY <2>1, <3>1, KeptRows
  <2>3. CASE Crash
    BY <2>1, <2>3 DEF Crash, NoFrame
  <2>4. CASE LoopStep
    <3>1. CASE MarkRunning
      <4>1. /\ frame' = frame /\ loop.id \in Job /\ Dispatching(loop.id)
            /\ db' = UpdateStatus(db, loop.id, "Running")
        BY <3>1 DEF MarkRunning, Dispatching, TypeOK
      <4>2. \A x \in Thread : frame[x].id # loop.id
        BY <4>1, OnlyThere
      <4> QED
        BY <2>1, <4>1, <4>2, KeptRows DEF JobStatus
    <3>2. CASE ~MarkRunning
      <4>1. /\ db' = db /\ Loop \in Thread
            /\ frame' = frame \/ \E j : frame' = [frame EXCEPT ![Loop] = ExecuteCall(j)]
        BY <2>4, <3>2 DEF LoopStep, LoopLock, LoopPop, LoopUnlock, LoopSkip, LoopExecute,
           LoopDispatch, LoopAgain, Submit, Thread
      <4> QED
        BY <2>1, <4>1, KeptRows DEF ExecuteCall
    <3> QED
      BY <3>1, <3>2
  <2>5. ASSUME NEW w \in Worker, WorkerTake(w) PROVE RunInv'
    <3>1. db' = db /\ \E j : frame' = [frame EXCEPT ![w] = ExecuteCall(j)]
      BY <2>5 DEF WorkerTake
    <3> QED
      BY <2>1, <3>1, KeptRows DEF ExecuteCall
  <2>6. ASSUME NEW th \in Thread, ExecuteStep(th) \/ RunnerReturns(th) PROVE RunInv'
    BY <2>6, ExecuteRuns
  <2>7. ASSUME NEW c \in Client, HandlerBegin(c) PROVE RunInv'
    <3>1. CASE db' = db
      <4>1. frame' = frame
        BY <2>7 DEF HandlerBegin, CreateSave, PauseFind, ResumeFind, DeleteFind
      <4> QED
        BY <2>1, <3>1, <4>1, KeptRows
    <3>2. CASE db' # db
      <4>1. PICK j \in Job : CreateSave(c, j)
        BY <2>7, <3>2 DEF HandlerBegin, PauseFind, ResumeFind, DeleteFind
      <4>2. NextRuns(j, now) \ {NoTime} \subseteq Time
        BY NextRunsTypes DEF TypeOK
      <4>3. frame' = frame /\ db[j].status = "unused" /\ \E t \in Time : db' = Save(db, j, t)
        BY <4>1, <4>2 DEF CreateSave
      <4>4. \A x \in Thread : frame[x].id # j
        BY <4>3 DEF PlaceInv, EndedIsUnheld, Held, OnThread
      <4> QED
        BY <2>1, <4>3, <4>4, KeptRows
    <3> QED
      BY <3>1, <3>2
  <2>8. ASSUME NEW c \in Client, HandlerStep(c) PROVE RunInv'
    <3>1. handler[c].pc # "idle" => handler[c].id \in Job
      BY DEF TypeOK
    <3>2. ~ResumeWrite(c)
      BY DEF ResumeWrite, PlaceInv, IdleHasNoJob
    <3>3. /\ frame' = frame
          /\ \/ db' = db
             \/ \E j \in Job : db' = UpdateStatus(db, j, "Paused") \/ db' = Remove(db, j)
      BY <2>8, <3>1, <3>2 DEF HandlerStep, CallSchedule, PauseWrite, DeleteRemove
    <3> QED
      BY <2>1, <3>3, KeptRows DEF JobStatus
  <2> QED
    BY <2>2, <2>3, <2>4, <2>5, <2>6, <2>7, <2>8 DEF Next
<1> QED
  BY <1>1, <1>2, TypeCorrect, PlacesInvariant, TimesInvariant, PTL DEF Spec

-----------------------------------------------------------------------------
(* The stage of a job.                                                     *)

\* The points of execute that are not a stage of their own.
Quiet == {"idle", "reread", "repause", "reschedule"}

\* The stage of the job a thread is in execute for.
PcStage(pc) ==
  CASE pc \in {"start", "running"}                   -> "running"
    [] pc \in {"complete", "set_active"}             -> "won"
    [] pc \in {"set_next", "reset_count"}            -> "renewing"
    [] pc \in {"count_retry", "fail"}                -> "lost"
    [] pc \in {"set_retry_next", "set_retry_active"} -> "retrying"
    [] OTHER                                         -> "waiting"

\* A job that a thread is in execute for is where this thread is.
LEMMA StageOnThread ==
  ASSUME NEW th \in Thread, NEW j \in Job
  PROVE  /\ frame[th].id = j /\ (\A x \in Thread : frame[x].id = j => x = th)
              => StageOf(j) = PcStage(frame[th].pc)
         /\ frame'[th].id = j /\ (\A x \in Thread : frame'[x].id = j => x = th)
              => StageOf(j)' = PcStage(frame'[th].pc)
<1>1. ASSUME frame[th].id = j, \A x \in Thread : frame[x].id = j => x = th
      PROVE  StageOf(j) = PcStage(frame[th].pc)
  <2>1. \A pcs : At(j, pcs) <=> frame[th].pc \in pcs
    BY <1>1 DEF At
  <2>2. Held(j)
    BY <1>1 DEF Held, OnThread
  <2> QED
    BY <2>1, <2>2 DEF StageOf, PcStage
<1>2. ASSUME frame'[th].id = j, \A x \in Thread : frame'[x].id = j => x = th
      PROVE  StageOf(j)' = PcStage(frame'[th].pc)
  <2>1. \A pcs : At(j, pcs)' <=> frame'[th].pc \in pcs
    BY <1>2 DEF At
  <2>2. Held(j)'
    BY <1>2 DEF Held, OnThread
  <2> QED
    BY <2>1, <2>2 DEF StageOf, PcStage
<1> QED
  BY <1>1, <1>2

\* A job that no thread is in execute for waits, or the process has none of it.
LEMMA StageOffThread ==
  ASSUME NEW j \in Job
  PROVE  /\ ~OnThread(j) => StageOf(j) = IF Held(j) THEN "waiting" ELSE "out"
         /\ ~OnThread(j)' => StageOf(j)' = IF Held(j)' THEN "waiting" ELSE "out"
<1>1. ~OnThread(j) => \A pcs : ~At(j, pcs)
  BY DEF OnThread, At
<1>2. ~OnThread(j)' => \A pcs : ~At(j, pcs)'
  BY DEF OnThread, At
<1> QED
  BY <1>1, <1>2 DEF StageOf

\* A job's stage changes only with its own thread, or when it is taken up or let
\* go of.
LEMMA StageStays ==
  ASSUME NEW k \in Job, Held(k)' <=> Held(k),
         \A x \in Thread : \/ frame'[x] = frame[x]
                           \/ frame[x].pc \in Quiet /\ frame'[x].pc \in Quiet
                           \/ frame[x].id # k /\ frame'[x].id # k
  PROVE  StageOf(k)' = StageOf(k)
<1>1. ASSUME NEW pcs, pcs \cap Quiet = {}
      PROVE  At(k, pcs)' <=> At(k, pcs)
  BY <1>1 DEF At
<1>2. /\ {"start", "running"} \cap Quiet = {}
      /\ {"complete", "set_active"} \cap Quiet = {}
      /\ {"set_next", "reset_count"} \cap Quiet = {}
      /\ {"count_retry", "fail"} \cap Quiet = {}
      /\ {"set_retry_next", "set_retry_active"} \cap Quiet = {}
  BY DEF Quiet
<1> QED
  BY <1>1, <1>2 DEF StageOf

\* What a step does to the stages, from what it does to each job's.
LEMMA StageMoves ==
  /\ (\A k \in Job : StageOf(k)' = StageOf(k)) => stage' = stage
  /\ \A j \in Job :
       /\ stage[j] = StageOf(j)
       /\ (\A k \in Job : k # j => StageOf(k)' = StageOf(k))
            => stage' = [stage EXCEPT ![j] = StageOf(j)']
BY DEF stage

-----------------------------------------------------------------------------
(* Who goes on holding a job.                                              *)

\* The loop lets go of a job only where it skips it.
LEMMA LoopHolds ==
  ASSUME TypeOK, IdleHasNoJob, LoopStep, NEW k \in Job, Held(k)
  PROVE  Held(k)' \/ (LoopSkip /\ k = Head(loop.batch))
<1> USE DEF Held
<1>0. /\ loop.batch \in Seq(Job) /\ queue \in Seq(Job) /\ handler' = handler
      /\ Scheduling(k)' <=> Scheduling(k)
  BY DEF TypeOK, LoopState, LoopStep, LoopLock, LoopPop, LoopUnlock, LoopSkip,
         LoopExecute, LoopDispatch, LoopAgain, MarkRunning, Submit, Scheduling
<1>1. CASE LoopLock \/ LoopUnlock \/ LoopAgain
  <2>1. /\ heap' = heap /\ queue' = queue /\ frame' = frame
        /\ loop'.batch = loop.batch
    BY <1>1 DEF LoopLock, LoopUnlock, LoopAgain, TypeOK, LoopState
  <2>2. ~Dispatching(k)
    BY <1>1 DEF LoopLock, LoopUnlock, LoopAgain, AtEach, Dispatching
  <2> QED
    BY <1>0, <2>1, <2>2, SameParts DEF OnThread
<1>2. CASE LoopPop
  <2>1. /\ queue' = queue /\ frame' = frame
        /\ loop'.pc = loop.pc /\ loop'.id = loop.id
    BY <1>2 DEF LoopPop, TypeOK, LoopState
  <2> QED
    BY <1>0, <1>2, <2>1, SameParts, PopCarries DEF OnThread
<1>3. CASE LoopSkip
  <2>1. /\ heap' = heap /\ queue' = queue /\ frame' = frame
        /\ loop.batch # <<>> /\ loop'.batch = Tail(loop.batch)
        /\ loop'.pc = loop.pc /\ loop'.id = loop.id
    BY <1>3 DEF LoopSkip, TypeOK, LoopState
  <2>2. Occurs(k, loop.batch) => k = Head(loop.batch) \/ Occurs(k, loop.batch)'
    BY <1>0, <2>1, OccursTail
  <2> QED
    BY <1>0, <1>3, <2>1, <2>2, SameParts DEF OnThread
<1>4. CASE LoopExecute
  <2> DEFINE j == Head(loop.batch)
  <2>1. /\ heap' = heap /\ queue' = queue
        /\ loop.batch # <<>> /\ loop'.batch = Tail(loop.batch)
        /\ loop'.pc = loop.pc /\ loop'.id = loop.id
        /\ frame' = [frame EXCEPT ![Loop] = ExecuteCall(j)]
        /\ frame[Loop].pc = "idle"
    BY <1>4 DEF LoopExecute, AtEach, TypeOK, LoopState
  <2>2. Occurs(k, loop.batch) => k = j \/ Occurs(k, loop.batch)'
    BY <1>0, <2>1, OccursTail
  <2>3. Loop \in Thread /\ frame \in [Thread -> Frame]
    BY DEF Thread, TypeOK
  <2> HIDE DEF j
  <2>4. k = j => OnThread(k)'
    BY <2>1, <2>3 DEF OnThread, ExecuteCall
  <2>5. frame[Loop].id # k
    BY <2>1, <2>3, SystemAssumption DEF IdleHasNoJob, SystemAssumption
  <2>6. OnThread(k) => OnThread(k)'
    BY <2>1, <2>3, <2>5 DEF OnThread
  <2> QED
    BY <1>0, <2>1, <2>2, <2>4, <2>6, SameParts
<1>5. CASE LoopDispatch
  <2>1. /\ heap' = heap /\ queue' = queue /\ frame' = frame
        /\ loop.batch # <<>> /\ loop'.batch = Tail(loop.batch)
        /\ loop.pc = "each" /\ loop'.pc = "mark" /\ loop'.id = Head(loop.batch)
    BY <1>5 DEF LoopDispatch, AtEach, TypeOK, LoopState
  <2>2. Occurs(k, loop.batch) => Dispatching(k)' \/ Occurs(k, loop.batch)'
    BY <1>0, <2>1, OccursTail DEF Dispatching
  <2>3. ~Dispatching(k)
    BY <2>1 DEF Dispatching
  <2> QED
    BY <1>0, <2>1, <2>2, <2>3, SameParts DEF OnThread
<1>6. CASE MarkRunning
  <2>1. /\ heap' = heap /\ queue' = queue /\ frame' = frame
        /\ loop'.batch = loop.batch
        /\ loop'.pc = "submit" /\ loop'.id = loop.id
    BY <1>6 DEF MarkRunning, TypeOK, LoopState
  <2>2. Dispatching(k) => Dispatching(k)'
    BY <2>1 DEF Dispatching
  <2> QED
    BY <1>0, <2>1, <2>2, SameParts DEF OnThread
<1>7. CASE Submit
  <2>1. /\ heap' = heap /\ frame' = frame /\ loop'.batch = loop.batch
        /\ loop.id \in Job /\ queue' = Append(queue, loop.id)
    BY <1>7 DEF Submit, TypeOK, LoopState
  <2>2. Occurs(k, queue) \/ Dispatching(k) => Occurs(k, queue)'
    BY <1>0, <2>1, OccursAppend DEF Dispatching
  <2> QED
    BY <1>0, <2>1, <2>2, SameParts DEF OnThread
<1> QED
  BY <1>1, <1>2, <1>3, <1>4, <1>5, <1>6, <1>7 DEF LoopStep

\* A worker goes on holding what it takes.
LEMMA WorkerHolds ==
  ASSUME TypeOK, IdleHasNoJob, NEW w \in Worker, WorkerTake(w), NEW k \in Job, Held(k)
  PROVE  Held(k)'
<1> DEFINE j == Head(queue)
<1>1. /\ queue \in Seq(Job) /\ queue # <<>> /\ queue' = Tail(queue)
      /\ w \in Thread /\ frame[w].pc = "idle" /\ frame \in [Thread -> Frame]
      /\ frame' = [frame EXCEPT ![w] = ExecuteCall(j)]
      /\ UNCHANGED <<heap, loop, handler>>
  BY DEF WorkerTake, TypeOK, Thread
<1>2. Occurs(k, queue) => k = j \/ Occurs(k, queue)'
  BY <1>1, OccursTail
<1>3. frame[w].id # k
  BY <1>1, SystemAssumption DEF IdleHasNoJob, SystemAssumption
<1> HIDE DEF j
<1>4. (k = j => OnThread(k)') /\ (OnThread(k) => OnThread(k)')
  BY <1>1, <1>3 DEF OnThread, ExecuteCall
<1> QED
  BY <1>1, <1>2, <1>4, SameParts DEF Held, Scheduling

\* A thread in execute lets go of no other job.
LEMMA ExecuteHolds ==
  ASSUME TypeOK, NEW th \in Thread, ExecuteStep(th) \/ RunnerReturns(th),
         NEW k \in Job, Held(k), k # frame[th].id
  PROVE  Held(k)'
<1>1. /\ frame \in [Thread -> Frame] /\ UNCHANGED <<loop, queue, handler>>
      /\ frame[th].id \in Job /\ frame[th] \in Frame
      /\ \E f \in Frame : frame' = [frame EXCEPT ![th] = f]
  BY ExecuteMoves DEF TypeOK
<1>2. InHeap(k) => InHeap(k)'
  <2>1. CASE Reschedule(th)
    <3>1. frame[th].next \in Time
      BY <1>1 DEF Frame
    <3> QED
      BY <1>1, <2>1, <3>1, PushCarries DEF Reschedule
  <2>2. CASE ~Reschedule(th)
    <3>1. heap' = heap
      BY <2>2 DEF ExecuteStep, RunnerReturns, Reread, Repause, RunStart, RunSucceed,
         RunFail, Complete, Fail, SetActive, SetNext, ResetCount, CountRetry,
         SetRetryNext, SetRetryActive, Write, WriteAndReturn
    <3> QED
      BY <3>1 DEF InHeap
  <2> QED
    BY <2>1, <2>2
<1>3. OnThread(k) => OnThread(k)'
  BY <1>1 DEF OnThread
<1> QED
  BY <1>1, <1>2, <1>3, SameParts DEF Held, Scheduling

\* A handler lets go of no job: create_job ends with the push.
LEMMA HandlerHolds ==
  ASSUME TypeOK, IdleHasNoJob, NEW c \in Client, HandlerBegin(c) \/ HandlerStep(c),
         NEW k \in Job, Held(k)
  PROVE  Held(k)'
<1>1. /\ UNCHANGED <<loop, queue, frame>> /\ handler \in [Client -> Handler]
      /\ handler[c] \in Handler
  BY DEF TypeOK, HandlerBegin, HandlerStep, CreateSave, PauseFind, ResumeFind,
         DeleteFind, CallSchedule, PauseWrite, ResumeWrite, DeleteRemove
<1>2. OnThread(k)' <=> OnThread(k)
  BY <1>1 DEF OnThread
<1>3. CASE CallSchedule(c)
  <2>1. handler[c].id \in Job /\ handler[c].next \in Time /\ handler[c].pc = "schedule"
    BY <1>1, <1>3 DEF CallSchedule, TypeOK, Handler
  <2> DEFINE j == handler[c].id
  <2>2. Push(j, handler[c].next)
    BY <1>3 DEF CallSchedule
  <2> HIDE DEF j
  <2>4. (InHeap(k) => InHeap(k)') /\ (k = j => InHeap(k)')
    BY <2>1, <2>2, PushCarries DEF j
  <2>3. Scheduling(k) => Scheduling(k)' \/ k = j
    BY <1>1, <1>3 DEF CallSchedule, Scheduling, j
  <2> QED
    BY <1>1, <1>2, <2>3, <2>4, SameParts DEF Held
<1>4. CASE ~CallSchedule(c)
  <2>1. heap' = heap /\ handler[c].pc # "schedule"
    BY <1>4 DEF HandlerBegin, HandlerStep, CreateSave, PauseFind, ResumeFind,
       DeleteFind, BeginCall, PauseWrite, ResumeWrite, DeleteRemove
  <2>2. \A d \in Client : d # c => handler'[d] = handler[d]
    BY <1>1, <1>4 DEF HandlerBegin, HandlerStep, CreateSave, PauseFind, ResumeFind,
       DeleteFind, BeginCall, PauseWrite, ResumeWrite, DeleteRemove
  <2>3. Scheduling(k) => Scheduling(k)'
    BY <2>1, <2>2 DEF Scheduling
  <2> QED
    BY <1>1, <1>2, <2>1, <2>3, SameParts DEF Held
<1> QED
  BY <1>3, <1>4

-----------------------------------------------------------------------------
(* Every step is a step of JobLife or leaves it alone.                     *)

Lives == Life!Next \/ UNCHANGED Life!lvars

LEMMA StandsStill ==
  ASSUME now' = now, db' = db, \A k \in Job : StageOf(k)' = StageOf(k)
  PROVE  Lives
BY StageMoves DEF Lives, Life!lvars

\* A step that moves no thread through execute, takes up nothing, lets go of
\* nothing and does not write leaves every job where it is.
LEMMA OthersStand ==
  ASSUME NEW k \in Job, Held(k)' <=> Held(k),
         frame' = frame \/ \E th \in Thread, f \in Frame :
                             /\ frame' = [frame EXCEPT ![th] = f]
                             /\ frame[th].pc \in Quiet /\ f.pc \in Quiet,
         TypeOK
  PROVE  StageOf(k)' = StageOf(k)
<1>1. frame \in [Thread -> Frame]
  BY DEF TypeOK
<1>2. \A x \in Thread : \/ frame'[x] = frame[x]
                        \/ frame[x].pc \in Quiet /\ frame'[x].pc \in Quiet
  BY <1>1
<1> QED
  BY <1>2, StageStays

\* The clock, a restart and a crash.
LEMMA ProcessLives ==
  ASSUME TypeOK, PlaceInv, PlaceInv', Tick \/ Boot \/ Crash
  PROVE  Lives
<1>0. NoJob \notin Job
  BY SystemAssumption DEF SystemAssumption
<1>1. CASE Tick
  <2>1. /\ now < MaxNow /\ now' = now + 1 /\ db' = db /\ frame' = frame
        /\ UNCHANGED <<heap, loop, queue, handler>>
    BY <1>1 DEF Tick
  <2>2. ASSUME NEW k \in Job PROVE StageOf(k)' = StageOf(k)
    <3>1. Held(k)' <=> Held(k)
      BY <2>1, SameParts DEF Held, OnThread
    <3> QED
      BY <2>1, <3>1, OthersStand
  <2>3. stage' = stage
    BY <2>2, StageMoves
  <2>4. Life!Tick
    BY <2>1, <2>3 DEF Life!Tick
  <2> QED
    BY <2>4 DEF Lives, Life!Next
<1>2. CASE Boot
  <2>1. /\ heap = EmptyHeap /\ loop = LoopStart /\ queue = <<>>
        /\ \A th \in Thread : frame[th].id = NoJob
        /\ \A c \in Client : handler[c].pc = "idle"
    BY <1>2 DEF Boot, PlaceInv, DownIsEmpty, IdleHasNoJob
  <2>2. /\ UNCHANGED <<db, now, loop, queue, frame, handler>>
        /\ heap' = [j \in Job |-> [t \in Time |->
                      IF Reloaded(j) /\ db[j].next_run = t THEN 1 ELSE 0]]
    BY <1>2 DEF Boot
  <2>3. ASSUME NEW k \in Job
        PROVE  StageOf(k) = "out" /\ StageOf(k)' = IF Life!Live(k) THEN "waiting" ELSE "out"
    <3>1. ~OnThread(k) /\ ~OnThread(k)'
      BY <1>0, <2>1, <2>2 DEF OnThread
    <3>2. /\ ~InHeap(k) /\ ~Occurs(k, loop.batch) /\ ~Dispatching(k)
          /\ ~Occurs(k, queue) /\ ~Scheduling(k)
      BY <2>1 DEF InHeap, EmptyHeap, LoopStart, Occurs, Dispatching, Scheduling
    <3>3. InHeap(k)' <=> Reloaded(k)
      <4>1. db[k].next_run \in Time
        BY DEF TypeOK, Row
      <4> QED
        BY <2>2, <4>1 DEF InHeap
    <3>4. Held(k)' <=> Reloaded(k)
      BY <2>2, <3>1, <3>2, <3>3, SameParts DEF Held, Scheduling
    <3> QED
      BY <3>1, <3>2, <3>4, StageOffThread DEF Held, Reloaded, Life!Live
  <2>4. Life!Restart
    BY <2>2, <2>3 DEF Life!Restart, stage
  <2> QED
    BY <2>4 DEF Lives, Life!Next
<1>3. CASE Crash
  <2>1. db' = db /\ now' = now /\ frame' = [th \in Thread |-> NoFrame]
    BY <1>3 DEF Crash
  <2>2. ASSUME NEW k \in Job PROVE StageOf(k)' = "out"
    <3>1. ~OnThread(k)'
      BY <1>0, <2>1 DEF OnThread, NoFrame
    <3>2. ~Held(k)'
      BY <1>3, ProcessPlaces
    <3> QED
      BY <3>1, <3>2, StageOffThread
  <2>3. Life!Die
    BY <2>1, <2>2 DEF Life!Die, stage
  <2> QED
    BY <2>3 DEF Lives, Life!Next
<1> QED
  BY <1>1, <1>2, <1>3

\* The loop thread leaves every job waiting, but for the one it skips; dispatch
\* writes Running.
LEMMA LoopLives ==
  ASSUME TypeOK, PlaceInv, TimeInv, LoopStep
  PROVE  Lives
<1>1. /\ IdleHasNoJob /\ NoneTakenUp /\ now' = now
      /\ loop.batch \in Seq(Job) /\ frame \in [Thread -> Frame] /\ Loop \in Thread
  BY LoopPlaces DEF PlaceInv, TypeOK, LoopState, Thread, LoopStep, LoopLock, LoopPop,
     LoopUnlock, LoopSkip, LoopExecute, LoopDispatch, LoopAgain, MarkRunning, Submit
<1>2. \/ frame' = frame
      \/ \E th \in Thread, f \in Frame : /\ frame' = [frame EXCEPT ![th] = f]
                                         /\ frame[th].pc \in Quiet /\ f.pc \in Quiet
  <2>1. CASE LoopExecute
    <3>1. Head(loop.batch) \in Job
      BY <1>1, <2>1, HeadTailProperties DEF LoopExecute
    <3>2. ExecuteCall(Head(loop.batch)) \in Frame
      BY <3>1, CallTypes
    <3> QED
      BY <1>1, <2>1, <3>2 DEF LoopExecute, AtEach, ExecuteCall, Quiet
  <2>2. CASE ~LoopExecute
    BY <2>2 DEF LoopStep, LoopLock, LoopPop, LoopUnlock, LoopSkip, LoopDispatch,
       LoopAgain, MarkRunning, Submit
  <2> QED
    BY <2>1, <2>2
<1>3. CASE LoopSkip
  <2> PICK j \in Job : loop.batch # <<>> /\ j = Head(loop.batch)
    BY <1>1, <1>3, HeadTailProperties DEF LoopSkip
  <2>1. /\ db' = db /\ ~Fireable(j)
        /\ loop'.batch = Tail(loop.batch) /\ loop'.pc = loop.pc /\ loop'.id = loop.id
        /\ UNCHANGED <<heap, queue, frame, handler>>
    BY <1>3 DEF LoopSkip, TypeOK, LoopState
  <2>2. Occurs(j, loop.batch) /\ ~Occurs(j, loop.batch)'
    <3>1. AtMostOnce(j, loop.batch)
      BY DEF PlaceInv, Once
    <3>2. Occurs(j, loop.batch) /\ ~Occurs(j, Tail(loop.batch))
      BY <1>1, <3>1, TailOnce
    <3> QED
      BY <2>1, <3>2 DEF Occurs
  <2>3. ~OnThread(j) /\ Held(j) /\ ~Held(j)'
    <3>1. ~InHeap(j) /\ ~Dispatching(j) /\ ~Occurs(j, queue) /\ ~OnThread(j) /\ ~Scheduling(j)
      BY <2>2 DEF PlaceInv, Apart
    <3>2. ~OnThread(j)' /\ ~Scheduling(j)'
      BY <2>1, <3>1 DEF OnThread, Scheduling
    <3>3. ~InHeap(j)' /\ ~Dispatching(j)' /\ ~Occurs(j, queue)'
      BY <2>1, <3>1, SameParts
    <3> QED
      BY <2>2, <3>1, <3>2, <3>3 DEF Held
  <2>4. ~OnThread(j)'
    BY <2>1, <2>3 DEF OnThread
  <2>5. StageOf(j) = "waiting" /\ StageOf(j)' = "out"
    BY <2>3, <2>4, StageOffThread
  <2>6. \A k \in Job : k # j => StageOf(k)' = StageOf(k)
    <3> SUFFICES ASSUME NEW k \in Job, k # j PROVE StageOf(k)' = StageOf(k)
      OBVIOUS
    <3>1. Held(k)' <=> Held(k)
      BY <1>1, LoopHolds DEF NoneTakenUp
    <3> QED
      BY <1>2, <3>1, OthersStand
  <2>7. stage[j] = "waiting" /\ stage' = [stage EXCEPT ![j] = "out"]
    BY <2>5, <2>6, StageMoves
  <2>8. ~Life!Live(j)
    BY <2>1 DEF Fireable, Present, JobStatus, Life!Live
  <2>9. Life!Drop(j)
    BY <1>1, <2>1, <2>7, <2>8 DEF Life!Drop, Life!Move
  <2> QED
    BY <2>9 DEF Lives, Life!Next, Life!JobStep
<1>4. CASE ~LoopSkip
  <2>1. ASSUME NEW k \in Job PROVE StageOf(k)' = StageOf(k)
    <3>1. Held(k)' <=> Held(k)
      BY <1>1, <1>4, LoopHolds DEF NoneTakenUp
    <3> QED
      BY <1>2, <3>1, OthersStand
  <2>2. CASE MarkRunning
    <3> PICK j \in Job : Dispatching(j) /\ db' = UpdateStatus(db, j, "Running")
      BY <2>2 DEF MarkRunning, Dispatching, TypeOK
    <3>2. Held(j) /\ ~OnThread(j)
      BY DEF PlaceInv, Apart, Held
    <3>3. stage[j] = "waiting" /\ stage' = stage
      BY <2>1, <3>2, StageOffThread, StageMoves
    <3>4. Life!Due(j)
      BY DEF TimeInv, Knows, Popped, Life!Due, Life!Present, Present, Life!JobStatus,
         JobStatus
    <3>5. db' = Life!UpdateStatus(db, j, "Running")
      BY DEF UpdateStatus, Life!UpdateStatus, Present, Life!Present, Life!JobStatus,
         JobStatus
    <3>6. Life!Mark(j)
      BY <1>1, <3>3, <3>4, <3>5 DEF Life!Mark, Life!Stay
    <3> QED
      BY <3>6 DEF Lives, Life!Next, Life!JobStep
  <2>3. CASE ~MarkRunning
    <3>1. db' = db
      BY <1>4, <2>3 DEF LoopStep, LoopLock, LoopPop, LoopUnlock, LoopExecute,
         LoopDispatch, LoopAgain, Submit
    <3> QED
      BY <1>1, <2>1, <3>1, StandsStill
  <2> QED
    BY <2>2, <2>3
<1> QED
  BY <1>3, <1>4

\* JobLife writes to the table as the repository does.
LEMMA SameOperations ==
  ASSUME NEW tbl, NEW j
  PROVE  /\ Life!Present(tbl, j) <=> Present(tbl, j)
         /\ \A s : Life!UpdateStatus(tbl, j, s) = UpdateStatus(tbl, j, s)
         /\ \A t : Life!UpdateNextRun(tbl, j, t) = UpdateNextRun(tbl, j, t)
         /\ \A n : Life!UpdateRetryCount(tbl, j, n) = UpdateRetryCount(tbl, j, n)
         /\ \A t : Life!Save(tbl, j, t) = Save(tbl, j, t)
         /\ Life!Remove(tbl, j) = Remove(tbl, j)
<1>1. Life!Present(tbl, j) <=> Present(tbl, j)
  BY DEF Life!Present, Present, Life!JobStatus, JobStatus
<1>2. \A s : Life!UpdateStatus(tbl, j, s) = UpdateStatus(tbl, j, s)
  BY <1>1 DEF Life!UpdateStatus, UpdateStatus
<1>3. \A t : Life!UpdateNextRun(tbl, j, t) = UpdateNextRun(tbl, j, t)
  BY <1>1 DEF Life!UpdateNextRun, UpdateNextRun, Life!ToTimeT, ToTimeT
<1>4. \A n : Life!UpdateRetryCount(tbl, j, n) = UpdateRetryCount(tbl, j, n)
  BY <1>1 DEF Life!UpdateRetryCount, UpdateRetryCount
<1>5. \A t : Life!Save(tbl, j, t) = Save(tbl, j, t)
  BY DEF Life!Save, Save, Life!ToTimeT, ToTimeT
<1>6. Life!Remove(tbl, j) = Remove(tbl, j)
  BY <1>1 DEF Life!Remove, Remove, Life!Vacant, Vacant
<1> QED
  BY <1>1, <1>2, <1>3, <1>4, <1>5, <1>6

\* A worker that takes a call leaves every job waiting.
LEMMA WorkerLives ==
  ASSUME TypeOK, PlaceInv, NEW w \in Worker, WorkerTake(w)
  PROVE  Lives
<1>1. /\ IdleHasNoJob /\ NoneTakenUp /\ now' = now /\ db' = db
      /\ queue \in Seq(Job) /\ queue # <<>> /\ w \in Thread /\ frame[w].pc = "idle"
      /\ frame' = [frame EXCEPT ![w] = ExecuteCall(Head(queue))]
  BY WorkerPlaces DEF PlaceInv, WorkerTake, TypeOK, Thread
<1>2. Head(queue) \in Job
  BY <1>1, HeadTailProperties
<1>3. ExecuteCall(Head(queue)) \in Frame /\ ExecuteCall(Head(queue)).pc \in Quiet
  BY <1>2, CallTypes DEF ExecuteCall, Quiet
<1>4. frame[w].pc \in Quiet
  BY <1>1 DEF Quiet
<1>5. ASSUME NEW k \in Job PROVE StageOf(k)' = StageOf(k)
  <2>1. Held(k)' <=> Held(k)
    BY <1>1, WorkerHolds DEF NoneTakenUp
  <2> QED
    BY <1>1, <1>3, <1>4, <2>1, OthersStand
<1> QED
  BY <1>1, <1>5, StandsStill

\* The handlers write to the rows; only create_job moves a job.
LEMMA HandlerLives ==
  ASSUME "resume" \notin Ops, TypeOK, PlaceInv, NEW c \in Client,
         HandlerBegin(c) \/ HandlerStep(c)
  PROVE  Lives
<1>1. IdleHasNoJob /\ OnlyNewTakenUp /\ now' = now /\ frame' = frame
  BY HandlerPlaces DEF PlaceInv, HandlerBegin, HandlerStep, CreateSave, PauseFind,
     ResumeFind, DeleteFind, CallSchedule, PauseWrite, ResumeWrite, DeleteRemove
<1>2. ASSUME NEW k \in Job, Held(k)' => Held(k)
      PROVE  StageOf(k)' = StageOf(k)
  <2>1. Held(k)' <=> Held(k)
    BY <1>1, <1>2, HandlerHolds
  <2> QED
    BY <1>1, <2>1, OthersStand
<1>3. CASE \E j \in Job : CreateSave(c, j)
  <2> PICK j \in Job : CreateSave(c, j)
    BY <1>3
  <2>1. PICK n \in NextRuns(j, now) \ {NoTime} :
          /\ db' = Save(db, j, n)
          /\ BeginCall(c, "create", [pc |-> "schedule", id |-> j, next |-> n])
    BY DEF CreateSave
  <2>2. n \in Time /\ n > now
    BY NextRunIsLater DEF TypeOK
  <2>3. db[j].status = "unused" /\ handler \in [Client -> Handler]
        /\ UNCHANGED <<heap, loop, queue>>
    BY DEF CreateSave, TypeOK
  <2>4. ~Held(j) /\ ~OnThread(j) /\ ~OnThread(j)'
    BY <1>1, <2>3 DEF PlaceInv, EndedIsUnheld, Held, OnThread
  <2>5. Held(j)'
    <3>1. Scheduling(j)'
      BY <2>1, <2>3 DEF BeginCall, Scheduling
    <3> QED
      BY <3>1 DEF Held
  <2>6. \A k \in Job : k # j => StageOf(k)' = StageOf(k)
    <3> SUFFICES ASSUME NEW k \in Job, k # j PROVE StageOf(k)' = StageOf(k)
      OBVIOUS
    <3>1. Scheduling(k)' => Scheduling(k)
      BY <2>1, <2>3 DEF BeginCall, Scheduling
    <3>2. Held(k)' => Held(k)
      BY <1>1, <2>3, <3>1, SameParts DEF Held, OnThread
    <3> QED
      BY <1>2, <3>2
  <2>7. stage[j] = "out" /\ stage' = [stage EXCEPT ![j] = "waiting"]
    BY <2>4, <2>5, <2>6, StageOffThread, StageMoves
  <2>8. Life!Create(j)
    BY <1>1, <2>1, <2>2, <2>3, <2>7, SameOperations
       DEF Life!Create, Life!Move, Life!Time, Time
  <2> QED
    BY <2>8 DEF Lives, Life!Next, Life!ClientStep
<1>4. CASE ~\E j \in Job : CreateSave(c, j)
  <2>1. NoneTakenUp
    BY <1>4, HandlerPlaces
  <2>2. \A k \in Job : StageOf(k)' = StageOf(k)
    BY <1>2, <2>1 DEF NoneTakenUp
  <2>3. stage' = stage
    BY <2>2, StageMoves
  <2>4. CASE PauseWrite(c)
    <3> PICK j \in Job : db' = UpdateStatus(db, j, "Paused")
      BY <2>4 DEF PauseWrite, TypeOK
    <3>1. Life!Pause(j)
      BY <1>1, <2>3, SameOperations DEF Life!Pause, Life!Stay
    <3> QED
      BY <3>1 DEF Lives, Life!Next, Life!ClientStep
  <2>5. CASE DeleteRemove(c)
    <3> PICK j \in Job : db' = Remove(db, j)
      BY <2>5 DEF DeleteRemove, TypeOK
    <3>1. Life!Delete(j)
      BY <1>1, <2>3, SameOperations DEF Life!Delete, Life!Stay
    <3> QED
      BY <3>1 DEF Lives, Life!Next, Life!ClientStep
  <2>6. CASE ~PauseWrite(c) /\ ~DeleteRemove(c)
    <3>1. ~ResumeWrite(c)
      BY <1>1 DEF ResumeWrite, IdleHasNoJob
    <3>2. db' = db
      BY <1>4, <2>6, <3>1 DEF HandlerBegin, HandlerStep, PauseFind, ResumeFind,
         DeleteFind, CallSchedule
    <3> QED
      BY <1>1, <2>2, <3>2, StandsStill
  <2> QED
    BY <2>4, <2>5, <2>6
<1> QED
  BY <1>3, <1>4

\* What a step of execute does to the stages: its own job's follows the thread,
\* until it returns.
LEMMA ExecuteStages ==
  ASSUME TypeOK, PlaceInv, PlaceInv', NEW th \in Thread,
         ExecuteStep(th) \/ RunnerReturns(th), NEW j \in Job, frame[th].id = j
  PROVE  /\ stage[j] = PcStage(frame[th].pc)
         /\ frame'[th].id = j => stage' = [stage EXCEPT ![j] = PcStage(frame'[th].pc)]
         /\ frame'[th] = NoFrame /\ heap' = heap => stage' = [stage EXCEPT ![j] = "out"]
         /\ frame'[th] = NoFrame /\ InHeap(j)' => stage' = [stage EXCEPT ![j] = "waiting"]
<1>0. frame \in [Thread -> Frame] /\ UNCHANGED <<loop, queue, handler>> /\ NoJob \notin Job
  BY ExecuteMoves, SystemAssumption DEF TypeOK, SystemAssumption
<1>1. stage[j] = PcStage(frame[th].pc)
  BY OnlyThere, StageOnThread, StageMoves
<1>2. \A x \in Thread : x # th => frame'[x] = frame[x]
  BY <1>0, ExecuteMoves
<1>3. \A x \in Thread : x # th => frame'[x].id # j
  BY <1>2, OnlyThere
<1>4. \A k \in Job : k # j => StageOf(k)' = StageOf(k)
  <2> SUFFICES ASSUME NEW k \in Job, k # j PROVE StageOf(k)' = StageOf(k)
    OBVIOUS
  <2>1. Held(k)' <=> Held(k)
    BY ExecutePlaces, ExecuteHolds DEF NoneTakenUp
  <2>2. frame[th].id # k /\ frame'[th].id # k
    BY <1>0, ExecuteMoves DEF NoFrame
  <2> QED
    BY <1>2, <2>1, <2>2, StageStays
<1>5. stage' = [stage EXCEPT ![j] = StageOf(j)']
  BY <1>4, StageMoves
<1>6. frame'[th].id = j => StageOf(j)' = PcStage(frame'[th].pc)
  BY <1>3, StageOnThread
<1>7. ASSUME frame'[th] = NoFrame
      PROVE  StageOf(j)' = IF InHeap(j)' THEN "waiting" ELSE "out"
  <2>2. ~OnThread(j)'
    BY <1>0, <1>3, <1>7 DEF OnThread, NoFrame
  <2>3. /\ ~Occurs(j, loop.batch)' /\ ~Dispatching(j)' /\ ~Occurs(j, queue)'
        /\ ~Scheduling(j)'
    BY <1>0, OnlyThere, SameParts
  <2>4. Held(j)' <=> InHeap(j)'
    BY <2>2, <2>3 DEF Held
  <2> QED
    BY <2>2, <2>4, StageOffThread
<1>8. heap' = heap => ~InHeap(j)'
  BY OnlyThere, SameParts
<1> QED
  BY <1>1, <1>5, <1>6, <1>7, <1>8

\* A run that the runner answers is won or lost; nothing is written yet.
LEMMA RunnerLives ==
  ASSUME TypeOK, PlaceInv, PlaceInv', NEW th \in Thread, RunnerReturns(th)
  PROVE  Lives
<1> PICK j \in Job : frame[th].id = j
  BY ExecuteMoves
<1>1. /\ frame \in [Thread -> Frame] /\ frame[th] \in Frame /\ frame[th].pc = "running"
      /\ now' = now /\ db' = db
  BY DEF TypeOK, RunnerReturns, RunSucceed, RunFail
<1>2. stage[j] = "running"
  BY <1>1, ExecuteStages DEF PcStage
<1>3. RunSucceed(th) => frame'[th].pc \in {"complete", "set_active"} /\ frame'[th].id = j
  <2> SUFFICES ASSUME RunSucceed(th)
               PROVE  frame'[th].pc \in {"complete", "set_active"} /\ frame'[th].id = j
    OBVIOUS
  <2>1. PICK n \in NextRuns(j, now) :
          IF IsLast(j, n)
          THEN frame' = [frame EXCEPT ![th].pc = "complete"]
          ELSE frame' = [frame EXCEPT ![th] = [@ EXCEPT !.pc = "set_active", !.next = n]]
    BY DEF RunSucceed
  <2>2. CASE IsLast(j, n)
    BY <1>1, <2>1, <2>2 DEF Frame
  <2>3. CASE ~IsLast(j, n)
    BY <1>1, <2>1, <2>3 DEF Frame
  <2> QED
    BY <2>2, <2>3
<1>4. RunFail(th) => frame'[th].pc \in {"count_retry", "fail"} /\ frame'[th].id = j
  BY <1>1 DEF RunFail, Frame
<1>5. stage' = [stage EXCEPT ![j] = PcStage(frame'[th].pc)]
  BY <1>3, <1>4, ExecuteStages DEF RunnerReturns
<1>6. CASE RunSucceed(th)
  <2>1. Life!Win(j)
    BY <1>1, <1>2, <1>3, <1>5, <1>6 DEF PcStage, Life!Win, Life!Move
  <2> QED
    BY <2>1 DEF Lives, Life!Next, Life!JobStep
<1>7. CASE RunFail(th)
  <2>1. Life!Lose(j)
    BY <1>1, <1>2, <1>4, <1>5, <1>7 DEF PcStage, Life!Lose, Life!Move
  <2> QED
    BY <2>1 DEF Lives, Life!Next, Life!JobStep
<1> QED
  BY <1>6, <1>7 DEF RunnerReturns

\* execute reads the row again and runs a live, due job, or lets go of it.
LEMMA RereadLives ==
  ASSUME TypeOK, PlaceInv, PlaceInv', TimeInv, NEW th \in Thread, Reread(th)
  PROVE  Lives
<1> PICK j \in Job : frame[th].id = j
  BY ExecuteMoves DEF ExecuteStep
<1>1. /\ frame \in [Thread -> Frame] /\ frame[th] \in Frame /\ frame[th].pc = "reread"
      /\ now' = now /\ db' = db /\ heap' = heap /\ ExecuteStep(th)
  BY DEF TypeOK, Reread, ExecuteStep
<1>2. stage[j] = "waiting"
  BY <1>1, ExecuteStages DEF PcStage
<1>3. db[j].status \notin {"unused", "Completed", "Failed"}
  BY DEF PlaceInv, EndedIsUnheld, Held, OnThread
<1>4. Life!Due(j)
  <2>1. Present(db, j) => db[j].next_run <= now
    BY <1>1 DEF TimeInv, Knows, Popped
  <2> QED
    BY <2>1, SameOperations DEF Life!Due
<1> DEFINE pc == AfterReread(j, db[j])
<1>5. CASE pc = "return"
  <2>1. frame'[th] = NoFrame
    BY <1>1, <1>5 DEF Reread
  <2>2. stage' = [stage EXCEPT ![j] = "out"]
    BY <1>1, <2>1, ExecuteStages
  <2>3. ~Life!Live(j)
    BY <1>5 DEF AfterReread, JobStatus, Life!Live
  <2>4. Life!Drop(j)
    BY <1>1, <1>2, <2>2, <2>3 DEF Life!Drop, Life!Move
  <2> QED
    BY <2>4 DEF Lives, Life!Next, Life!JobStep
<1>6. CASE pc # "return"
  <2>1. /\ pc \in {"repause", "fail", "start"}
        /\ pc = "repause" \/ Life!Live(j)
        /\ pc = "fail" => j \in Unparsable
        /\ pc = "start" => j \notin Unparsable
    BY <1>3, <1>6 DEF AfterReread, JobStatus, Life!Live
  <2>2. frame' = [frame EXCEPT ![th] = [@ EXCEPT !.pc = pc, !.count = db[j].retry_count]]
    BY <1>6 DEF Reread
  <2> HIDE DEF pc
  <2>3. frame'[th].id = j /\ frame'[th].pc = pc
    BY <1>1, <2>2 DEF Frame
  <2>4. stage' = [stage EXCEPT ![j] = PcStage(pc)]
    BY <1>1, <2>3, ExecuteStages
  <2>5. CASE pc = "repause"
    <3>1. stage' = stage
      BY <1>2, <2>4, <2>5 DEF PcStage, stage
    <3> QED
      BY <1>1, <3>1 DEF Lives, Life!lvars
  <2>6. CASE pc = "fail"
    <3>1. Life!Refuse(j)
      BY <1>1, <1>2, <2>1, <2>4, <2>6 DEF PcStage, Life!Refuse, Life!Move
    <3> QED
      BY <3>1 DEF Lives, Life!Next, Life!JobStep
  <2>7. CASE pc = "start"
    <3>1. Life!Begin(j)
      BY <1>1, <1>2, <1>4, <2>1, <2>4, <2>7 DEF PcStage, Life!Begin, Life!Move
    <3> QED
      BY <3>1 DEF Lives, Life!Next, Life!JobStep
  <2> QED
    BY <2>1, <2>5, <2>6, <2>7
<1> QED
  BY <1>5, <1>6

\* The writes of execute, one column after the other.
LEMMA ExecuteLives ==
  ASSUME TypeOK, PlaceInv, PlaceInv', TimeInv, RunInv, NEW th \in Thread, ExecuteStep(th)
  PROVE  Lives
<1> PICK j \in Job : frame[th].id = j
  BY ExecuteMoves
<1>0. frame \in [Thread -> Frame] /\ frame[th] \in Frame /\ now' = now /\ RunKnows(th)
  BY ExecuteMoves DEF TypeOK, RunInv
<1>1. /\ stage[j] = PcStage(frame[th].pc)
      /\ frame'[th].id = j => stage' = [stage EXCEPT ![j] = PcStage(frame'[th].pc)]
      /\ frame'[th] = NoFrame /\ heap' = heap => stage' = [stage EXCEPT ![j] = "out"]
      /\ frame'[th] = NoFrame /\ InHeap(j)' => stage' = [stage EXCEPT ![j] = "waiting"]
  BY ExecuteStages
<1>2. db \in [Job -> Row] /\ db[j] \in Row
  BY DEF TypeOK
\* The job stays in the stage it is in, or moves to the next.
<1>3. ASSUME NEW pc, frame' = [frame EXCEPT ![th].pc = pc]
      PROVE  /\ stage' = [stage EXCEPT ![j] = PcStage(pc)]
             /\ PcStage(pc) = stage[j] => stage' = stage
  <2>1. frame'[th].pc = pc /\ frame'[th].id = j
    BY <1>0, <1>3 DEF Frame
  <2>2. stage' = [stage EXCEPT ![j] = PcStage(pc)]
    BY <1>1, <2>1
  <2> QED
    BY <2>2 DEF stage
<1>4. ASSUME NEW x, [stage EXCEPT ![j] = x] = stage', x = stage[j] PROVE stage' = stage
  BY <1>4 DEF stage
<1>5. frame' = [frame EXCEPT ![th] = NoFrame] => frame'[th] = NoFrame
  BY <1>0
<1>6. CASE Reread(th)
  BY <1>6, RereadLives
<1>7. CASE Repause(th)
  <2>1. /\ frame[th].pc = "repause" /\ db' = UpdateStatus(db, j, "Paused")
        /\ frame'[th] = NoFrame /\ heap' = heap
    BY <1>5, <1>7 DEF Repause, WriteAndReturn
  <2>2. db[j].status \in {"Paused", "removed"}
    BY <1>0, <2>1 DEF RunKnows
  <2>3. db' = db /\ ~Life!Live(j)
    BY <1>2, <2>1, <2>2 DEF UpdateStatus, Present, JobStatus, Row, Life!Live
  <2>4. Life!Drop(j)
    BY <1>0, <1>1, <2>1, <2>3 DEF PcStage, Life!Drop, Life!Move
  <2> QED
    BY <2>4 DEF Lives, Life!Next, Life!JobStep
<1>8. CASE RunStart(th)
  <2>1. frame[th].pc = "start" /\ frame' = [frame EXCEPT ![th].pc = "running"] /\ db' = db
    BY <1>8 DEF RunStart
  <2>2. stage' = stage
    BY <1>1, <1>3, <2>1 DEF PcStage
  <2> QED
    BY <1>0, <2>1, <2>2 DEF Lives, Life!lvars
<1>9. CASE Complete(th)
  <2>1. /\ frame[th].pc = "complete" /\ db' = Life!UpdateStatus(db, j, "Completed")
        /\ frame'[th] = NoFrame /\ heap' = heap
    BY <1>5, <1>9, SameOperations DEF Complete, WriteAndReturn
  <2>2. Kind[j] # "interval"
    BY <1>0, <2>1 DEF RunKnows
  <2>3. Life!Complete(j)
    BY <1>0, <1>1, <2>1, <2>2 DEF PcStage, Life!Complete, Life!Move
  <2> QED
    BY <2>3 DEF Lives, Life!Next, Life!JobStep
<1>10. CASE Fail(th)
  <2>1. /\ frame[th].pc = "fail" /\ db' = Life!UpdateStatus(db, j, "Failed")
        /\ frame'[th] = NoFrame /\ heap' = heap
    BY <1>5, <1>10, SameOperations DEF Fail, WriteAndReturn
  <2>2. j \in Unparsable \/ Life!UsedUp(j)
    BY <1>0, <2>1, SameOperations DEF RunKnows, Life!UsedUp
  <2>3. Life!GiveUp(j)
    BY <1>0, <1>1, <2>1, <2>2 DEF PcStage, Life!GiveUp, Life!Move
  <2> QED
    BY <2>3 DEF Lives, Life!Next, Life!JobStep
<1>11. CASE SetActive(th)
  <2>1. /\ frame[th].pc = "set_active" /\ db' = Life!UpdateStatus(db, j, "Active")
        /\ frame' = [frame EXCEPT ![th].pc = "set_next"]
    BY <1>11, SameOperations DEF SetActive, Write
  <2>2. Kind[j] # "one_time"
    BY <1>0, <2>1 DEF RunKnows
  <2>3. stage[j] = "won" /\ stage' = [stage EXCEPT ![j] = "renewing"]
    BY <1>1, <1>3, <2>1 DEF PcStage
  <2>4. Life!Renew(j)
    BY <1>0, <2>1, <2>2, <2>3 DEF Life!Renew, Life!Move
  <2> QED
    BY <2>4 DEF Lives, Life!Next, Life!JobStep
<1>12. CASE SetNext(th)
  <2>1. /\ frame[th].pc = "set_next" /\ db' = UpdateNextRun(db, j, frame[th].next)
        /\ frame' = [frame EXCEPT ![th].pc = "reset_count"]
    BY <1>12 DEF SetNext, Write
  <2>2. stage[j] = "renewing" /\ stage' = stage
    BY <1>1, <1>3, <2>1 DEF PcStage
  <2>3. \E t \in Life!Time : t >= db[j].next_run /\ db' = Life!UpdateNextRun(db, j, t)
    <3>1. frame[th].next \in Time /\ db[j].next_run \in Time
      BY <1>0, <1>2 DEF Frame, Row
    <3>2. CASE Present(db, j)
      <4>1. frame[th].next >= db[j].next_run
        BY <1>0, <2>1, <3>1, <3>2 DEF RunKnows, Time
      <4> QED
        BY <2>1, <3>1, <4>1, SameOperations DEF Life!Time, Time
    <3>3. CASE ~Present(db, j)
      <4>1. db' = UpdateNextRun(db, j, db[j].next_run)
        BY <2>1, <3>3 DEF UpdateNextRun
      <4>2. db[j].next_run >= db[j].next_run
        BY <3>1 DEF Time
      <4> QED
        BY <3>1, <4>1, <4>2, SameOperations DEF Life!Time, Time
    <3> QED
      BY <3>2, <3>3
  <2>4. Life!Advance(j)
    BY <1>0, <2>2, <2>3 DEF Life!Advance, Life!Stay
  <2> QED
    BY <2>4 DEF Lives, Life!Next, Life!JobStep
<1>13. CASE ResetCount(th)
  <2>1. /\ frame[th].pc = "reset_count" /\ db' = Life!UpdateRetryCount(db, j, 0)
        /\ frame' = [frame EXCEPT ![th].pc = "reschedule"]
    BY <1>13, SameOperations DEF ResetCount, Write
  <2>2. stage[j] = "renewing" /\ stage' = [stage EXCEPT ![j] = "waiting"]
    <3>1. PcStage("reset_count") = "renewing" /\ PcStage("reschedule") = "waiting"
      BY DEF PcStage
    <3>2. frame'[th].id = j /\ frame'[th].pc = "reschedule"
      BY <1>0, <2>1 DEF Frame
    <3> QED
      BY <1>1, <2>1, <3>1, <3>2
  <2>3. Life!Renewed(j)
    BY <1>0, <2>1, <2>2 DEF Life!Renewed, Life!Move
  <2> QED
    BY <2>3 DEF Lives, Life!Next, Life!JobStep
<1>14. CASE CountRetry(th)
  <2>1. /\ frame[th].pc = "count_retry"
        /\ db' = UpdateRetryCount(db, j, frame[th].count + 1)
        /\ frame' = [frame EXCEPT ![th].pc = "set_retry_next"]
    BY <1>14 DEF CountRetry, Write
  <2>2. stage[j] = "lost" /\ stage' = [stage EXCEPT ![j] = "retrying"]
    BY <1>1, <1>3, <2>1 DEF PcStage
  <2>3. /\ Present(db, j) => frame[th].count = db[j].retry_count
        /\ frame[th].count + 1 <= MaxRetries[j] /\ frame[th].count \in Nat
        /\ MaxRetries[j] \in Int
    BY <1>0, <2>1, ModelAssumption DEF RunKnows, Frame, ModelAssumption
  <2>4. Life!MayRetry(j)
    BY <2>3, SameOperations DEF Life!MayRetry
  <2>5. db' = UpdateRetryCount(db, j, db[j].retry_count + 1)
    BY <2>1, <2>3 DEF UpdateRetryCount
  <2>6. db' = Life!UpdateRetryCount(db, j, db[j].retry_count + 1)
    BY <2>5, SameOperations
  <2>7. Life!Retry(j)
    BY <1>0, <2>2, <2>4, <2>6 DEF Life!Retry, Life!Move
  <2> QED
    BY <2>7 DEF Lives, Life!Next, Life!JobStep
<1>15. CASE SetRetryNext(th)
  <2> DEFINE at == now + RetryDelay[j]
  <2>1. /\ frame[th].pc = "set_retry_next" /\ db' = UpdateNextRun(db, j, at)
        /\ frame' = [frame EXCEPT ![th] = [@ EXCEPT !.pc = "set_retry_active", !.next = at]]
    BY <1>15 DEF SetRetryNext
  <2>2. at \in Life!Time
    BY ModelAssumption DEF TypeOK, Life!Time, ModelAssumption
  <2> HIDE DEF at
  <2>3. frame'[th].id = j /\ frame'[th].pc = "set_retry_active"
    BY <1>0, <2>1 DEF Frame
  <2>4. stage[j] = "retrying" /\ stage' = [stage EXCEPT ![j] = "retrying"]
    BY <1>1, <2>1, <2>3 DEF PcStage
  <2>5. stage' = stage
    BY <1>4, <2>4
  <2>6. db' = Life!UpdateNextRun(db, j, at)
    BY <2>1, SameOperations
  <2>7. Life!Delay(j)
    BY <1>0, <2>2, <2>4, <2>5, <2>6 DEF Life!Delay, Life!Stay
  <2> QED
    BY <2>7 DEF Lives, Life!Next, Life!JobStep
<1>16. CASE SetRetryActive(th)
  <2>1. /\ frame[th].pc = "set_retry_active" /\ db' = Life!UpdateStatus(db, j, "Active")
        /\ frame' = [frame EXCEPT ![th].pc = "reschedule"]
    BY <1>16, SameOperations DEF SetRetryActive, Write
  <2>2. stage[j] = "retrying" /\ stage' = [stage EXCEPT ![j] = "waiting"]
    <3>1. PcStage("set_retry_active") = "retrying" /\ PcStage("reschedule") = "waiting"
      BY DEF PcStage
    <3>2. frame'[th].id = j /\ frame'[th].pc = "reschedule"
      BY <1>0, <2>1 DEF Frame
    <3> QED
      BY <1>1, <2>1, <3>1, <3>2
  <2>3. Life!Retried(j)
    BY <1>0, <2>1, <2>2 DEF Life!Retried, Life!Move
  <2> QED
    BY <2>3 DEF Lives, Life!Next, Life!JobStep
<1>17. CASE Reschedule(th)
  <2>1. /\ frame[th].pc = "reschedule" /\ db' = db /\ frame'[th] = NoFrame
        /\ Push(j, frame[th].next) /\ frame[th].next \in Time
    BY <1>0, <1>5, <1>17 DEF Reschedule, Frame
  <2>2. InHeap(j)'
    BY <2>1, PushCarries
  <2>3. stage[j] = "waiting" /\ stage' = [stage EXCEPT ![j] = "waiting"]
    BY <1>1, <2>1, <2>2 DEF PcStage
  <2> QED
    BY <1>0, <1>4, <2>1, <2>3 DEF Lives, Life!lvars
<1> QED
  BY <1>6, <1>7, <1>8, <1>9, <1>10, <1>11, <1>12, <1>13, <1>14, <1>15, <1>16, <1>17
     DEF ExecuteStep

-----------------------------------------------------------------------------
(***************************************************************************)
(* As long as nobody calls resume_job, the service implements JobLife:     *)
(* whatever the loop, the pool, the handlers and the crashes do, each job  *)
(* runs only when live and due, is won or lost once per run, has its row   *)
(* brought up to date column by column, and is let go of only when its row *)
(* says so.                                                                *)
(***************************************************************************)
THEOREM ServiceLivesAsPromised ==
  ASSUME "resume" \notin Ops
  PROVE  Spec => ImplementsJobLife
<1>1. Init => Life!Init
  <2> SUFFICES ASSUME Init PROVE Life!Init
    OBVIOUS
  <2>1. now = 0 /\ db = [j \in Job |-> Life!Vacant("unused")]
    BY DEF Init, Vacant, Life!Vacant
  <2>2. ASSUME NEW j \in Job PROVE StageOf(j) = "out"
    <3>1. ~OnThread(j)
      BY SystemAssumption DEF Init, OnThread, NoFrame, SystemAssumption
    <3>2. ~Held(j)
      <4>1. db[j].status = "unused"
        BY DEF Init, Vacant
      <4> QED
        BY <4>1, InitPlaces DEF PlaceInv, EndedIsUnheld
    <3> QED
      BY <3>1, <3>2, StageOffThread
  <2>3. stage = [j \in Job |-> "out"]
    BY <2>2 DEF stage
  <2> QED
    BY <2>1, <2>3 DEF Life!Init
<1>2. /\ TypeOK /\ PlaceInv /\ PlaceInv' /\ TimeInv /\ RunInv /\ [Next]_vars
      => [Life!Next]_(Life!lvars)
  <2> SUFFICES ASSUME TypeOK, PlaceInv, PlaceInv', TimeInv, RunInv, [Next]_vars
               PROVE  Lives
    BY DEF Lives
  <2>1. CASE UNCHANGED vars
    <3>1. frame' = frame /\ now' = now /\ db' = db
      BY <2>1 DEF vars
    <3>2. ASSUME NEW k \in Job PROVE StageOf(k)' = StageOf(k)
      <4>1. Held(k)' <=> Held(k)
        BY <2>1, SameParts DEF vars, Held
      <4> QED
        BY <3>1, <4>1, OthersStand
    <3> QED
      BY <3>1, <3>2, StandsStill
  <2>2. CASE Tick \/ Boot \/ Crash
    BY <2>2, ProcessLives
  <2>3. CASE LoopStep
    BY <2>3, LoopLives
  <2>4. ASSUME NEW w \in Worker, WorkerTake(w) PROVE Lives
    BY <2>4, WorkerLives
  <2>5. ASSUME NEW th \in Thread, ExecuteStep(th) \/ RunnerReturns(th) PROVE Lives
    BY <2>5, ExecuteLives, RunnerLives
  <2>6. ASSUME NEW c \in Client, HandlerBegin(c) \/ HandlerStep(c) PROVE Lives
    BY <2>6, HandlerLives
  <2> QED
    BY <2>1, <2>2, <2>3, <2>4, <2>5, <2>6 DEF Next
<1> QED
  BY <1>1, <1>2, TypeCorrect, PlacesInvariant, TimesInvariant, RunsInvariant, PTL
     DEF Spec, ImplementsJobLife, Life!Spec

=============================================================================

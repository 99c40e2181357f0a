----------------------------- MODULE JobSystem ------------------------------
(***************************************************************************)
(* The running service: JobService handlers, the Scheduler's heap and loop *)
(* thread, the Executor and its pool, over the jobs table.  A step is one  *)
(* critical section, one table operation, or one call of the job runner;   *)
(* everything between two of them is local to its thread.                  *)
(*                                                                         *)
(* The source hands a due job to the Executor in two ways.  Scheduler.cpp  *)
(* calls Executor::execute on the loop thread; Executor.hpp makes execute  *)
(* private and offers dispatch, which marks the row Running and queues     *)
(* execute on the pool; it fits the DueCallback of Scheduler.hpp, and      *)
(* nothing in the source connects the two yet.  The constant Pooled        *)
(* selects the second one.                                                 *)
(*                                                                         *)
(* Condition variables are abstracted here: a waiting thread is one whose  *)
(* next action is not enabled.                                             *)
(***************************************************************************)
EXTENDS JobStore, Sequences

CONSTANTS
  Client,     \* HTTP handler threads
  Worker,     \* threads of the pool
  Loop,       \* the scheduler's thread
  NoJob,      \* the id of an idle thread
  Pooled,     \* does the loop call dispatch (TRUE) or execute (FALSE)?
  Ops,        \* the JobService operations clients call
  MaxCalls,   \* bound: number of calls that pass their checks
  MaxCrashes  \* bound: number of crashes

ASSUME SystemAssumption ==
  /\ Loop \notin Worker
  /\ NoJob \notin Job
  /\ Pooled \in BOOLEAN
  /\ Ops \subseteq {"create", "pause", "resume", "delete"}
  /\ MaxCalls \in Nat
  /\ MaxCrashes \in Nat

Thread == Worker \cup {Loop}

VARIABLES
  db,       \* the jobs table; the only state that survives a crash
  now,      \* system_clock
  up,       \* is the process running?
  heap,     \* heap_: how many entries each job has at each time
  loop,     \* the local state of Scheduler::loop
  queue,    \* queue_ of the thread pool: ids whose execute is pending
  frame,    \* the call of Executor::execute each thread is in
  handler,  \* the call of JobService each client thread is in
  calls,    \* number of calls so far
  crashes   \* number of crashes so far

vars == <<db, now, up, heap, loop, queue, frame, handler, calls, crashes>>

-----------------------------------------------------------------------------
ExecPc == {"idle", "reread", "repause", "start", "running",
           "set_active", "set_next", "reset_count",
           "count_retry", "set_retry_next", "set_retry_active",
           "reschedule", "complete", "fail"}

\* count: retry_count of the row as execute read it; next: next_run_time.
Frame == [pc : ExecPc, id : Job \cup {NoJob}, count : Nat, next : Time]
NoFrame == [pc |-> "idle", id |-> NoJob, count |-> 0, next |-> 0]

\* execute has been called for job j.
ExecuteCall(j) == [pc |-> "reread", id |-> j, count |-> 0, next |-> 0]

HandlerPc == {"idle", "schedule", "pause", "resume", "delete"}
Handler == [pc : HandlerPc, id : Job \cup {NoJob}, next : Time]
NoHandler == [pc |-> "idle", id |-> NoJob, next |-> 0]

\* at: the loop's variable now; batch: due_ids; id: the job being dispatched.
LoopPc == {"wait", "pop", "each", "mark", "submit"}
LoopState == [pc : LoopPc, at : 0 .. MaxNow, batch : Seq(Job),
              id : Job \cup {NoJob}]
LoopStart == [pc |-> "wait", at |-> 0, batch |-> <<>>, id |-> NoJob]

EmptyHeap == [j \in Job |-> [t \in Time |-> 0]]

Init ==
  /\ db = [j \in Job |-> Vacant("unused")]
  /\ now = 0
  /\ up = FALSE
  /\ heap = EmptyHeap
  /\ loop = LoopStart
  /\ queue = <<>>
  /\ frame = [th \in Thread |-> NoFrame]
  /\ handler = [c \in Client |-> NoHandler]
  /\ calls = 0
  /\ crashes = 0

-----------------------------------------------------------------------------
(* The process and its clock.                                              *)

Tick ==
  /\ now < MaxNow
  /\ now' = now + 1
  /\ UNCHANGED <<db, up, heap, loop, queue, frame, handler, calls, crashes>>

\* Mutant: a row left Running by a crash is not loaded.
ReloadedActiveOnly(j) == db[j].status = "Active"

\* The rows load_from_repository puts back into the heap.
Reloaded(j) == db[j].status \in {"Active", "Running"}

\* load_from_repository, then start, before any other thread exists.
Boot ==
  /\ ~up
  /\ up' = TRUE
  /\ heap' = [j \in Job |-> [t \in Time |->
                IF Reloaded(j) /\ db[j].next_run = t THEN 1 ELSE 0]]
  /\ UNCHANGED <<db, now, loop, queue, frame, handler, calls, crashes>>

\* The process dies between any two steps; memory is lost, the table is not.
Crash ==
  /\ up
  /\ crashes < MaxCrashes
  /\ up' = FALSE
  /\ heap' = EmptyHeap
  /\ loop' = LoopStart
  /\ queue' = <<>>
  /\ frame' = [th \in Thread |-> NoFrame]
  /\ handler' = [c \in Client |-> NoHandler]
  /\ crashes' = crashes + 1
  /\ UNCHANGED <<db, now, calls>>

-----------------------------------------------------------------------------
(* Scheduler.                                                              *)

\* Push an entry; the lock is free unless the loop is popping.
Push(j, t) ==
  /\ loop.pc # "pop"
  /\ heap' = [heap EXCEPT ![j][t] = @ + 1]

HasDue(t) == \E j \in Job, u \in Time : heap[j][u] > 0 /\ u <= t

Earliest(j, t) ==
  /\ heap[j][t] > 0
  /\ \A k \in Job, u \in Time : heap[k][u] > 0 => t <= u

\* The loop takes the lock and finds the top of the heap due.
LoopLock ==
  /\ loop.pc = "wait"
  /\ HasDue(now)
  /\ loop' = [loop EXCEPT !.pc = "pop", !.at = now]
  /\ UNCHANGED <<db, now, up, heap, queue, frame, handler, calls, crashes>>

\* Mutant: the loop pops entries that are not due yet.
PoppableAny(t) == t \in Time

Poppable(t) == t <= loop.at

LoopPop ==
  /\ loop.pc = "pop"
  /\ \E j \in Job, t \in Time :
       /\ Earliest(j, t)
       /\ Poppable(t)
       /\ heap' = [heap EXCEPT ![j][t] = @ - 1]
       /\ loop' = [loop EXCEPT !.batch = Append(@, j)]
  /\ UNCHANGED <<db, now, up, queue, frame, handler, calls, crashes>>

LoopUnlock ==
  /\ loop.pc = "pop"
  /\ ~HasDue(loop.at)
  /\ loop' = [loop EXCEPT !.pc = "each", !.at = 0]
  /\ UNCHANGED <<db, now, up, heap, queue, frame, handler, calls, crashes>>

\* Mutant: the loop skips every row that is not Active.
FireableActiveOnly(j) == db[j].status = "Active"

\* A row the loop does not skip: found, and in none of the four statuses.
Fireable(j) ==
  /\ Present(db, j)
  /\ db[j].status \notin {"Paused", "Cancelled", "Completed", "Failed"}

\* The loop is at the head of its for statement, not inside execute.
AtEach == loop.pc = "each" /\ frame[Loop].pc = "idle"

LoopSkip ==
  /\ AtEach
  /\ loop.batch # <<>>
  /\ ~Fireable(Head(loop.batch))
  /\ loop' = [loop EXCEPT !.batch = Tail(@)]
  /\ UNCHANGED <<db, now, up, heap, queue, frame, handler, calls, crashes>>

\* executor_.execute(job), on the loop thread.
LoopExecute ==
  /\ ~Pooled
  /\ AtEach
  /\ loop.batch # <<>>
  /\ Fireable(Head(loop.batch))
  /\ loop' = [loop EXCEPT !.batch = Tail(@)]
  /\ frame' = [frame EXCEPT ![Loop] = ExecuteCall(Head(loop.batch))]
  /\ UNCHANGED <<db, now, up, heap, queue, handler, calls, crashes>>

\* Mutant: dispatch runs the job on the loop thread.
LoopDispatchInline ==
  /\ Pooled
  /\ AtEach
  /\ loop.batch # <<>>
  /\ Fireable(Head(loop.batch))
  /\ loop' = [loop EXCEPT !.batch = Tail(@)]
  /\ frame' = [frame EXCEPT ![Loop] = ExecuteCall(Head(loop.batch))]
  /\ UNCHANGED <<db, now, up, heap, queue, handler, calls, crashes>>

\* The step of LoopExecute with dispatch in the place of execute: dispatch gets
\* a copy of the row.  No line of Scheduler.cpp makes this call yet.
LoopDispatch ==
  /\ Pooled
  /\ AtEach
  /\ loop.batch # <<>>
  /\ Fireable(Head(loop.batch))
  /\ loop' = [loop EXCEPT !.pc = "mark", !.id = Head(loop.batch), !.batch = Tail(@)]
  /\ UNCHANGED <<db, now, up, heap, queue, frame, handler, calls, crashes>>

LoopAgain ==
  /\ AtEach
  /\ loop.batch = <<>>
  /\ loop' = [loop EXCEPT !.pc = "wait"]
  /\ UNCHANGED <<db, now, up, heap, queue, frame, handler, calls, crashes>>

-----------------------------------------------------------------------------
(* Executor::dispatch and the pool.                                        *)

MarkRunning ==
  /\ loop.pc = "mark"
  /\ db' = UpdateStatus(db, loop.id, "Running")
  /\ loop' = [loop EXCEPT !.pc = "submit"]
  /\ UNCHANGED <<now, up, heap, queue, frame, handler, calls, crashes>>

Submit ==
  /\ loop.pc = "submit"
  /\ queue' = Append(queue, loop.id)
  /\ loop' = [loop EXCEPT !.pc = "each", !.id = NoJob]
  /\ UNCHANGED <<db, now, up, heap, frame, handler, calls, crashes>>

\* Mutant: the worker reads the front of the queue and does not pop it.
WorkerPeek(w) ==
  /\ frame[w].pc = "idle"
  /\ queue # <<>>
  /\ frame' = [frame EXCEPT ![w] = ExecuteCall(Head(queue))]
  /\ UNCHANGED <<db, now, up, heap, loop, queue, handler, calls, crashes>>

WorkerTake(w) ==
  /\ frame[w].pc = "idle"
  /\ queue # <<>>
  /\ queue' = Tail(queue)
  /\ frame' = [frame EXCEPT ![w] = ExecuteCall(Head(queue))]
  /\ UNCHANGED <<db, now, up, heap, loop, handler, calls, crashes>>

-----------------------------------------------------------------------------
(* Executor::execute, on thread th.                                        *)

Goto(th, pc) == frame' = [frame EXCEPT ![th].pc = pc]
Return(th)   == frame' = [frame EXCEPT ![th] = NoFrame]

\* Where execute goes after it has read row r of job j again.
AfterReread(j, r) ==
  IF r.status \notin JobStatus \ {"Cancelled"} THEN "return"
  ELSE IF r.status = "Paused" THEN "repause"
  ELSE IF j \in Unparsable THEN "fail"
  ELSE "start"

Reread(th) ==
  /\ frame[th].pc = "reread"
  /\ LET j  == frame[th].id
         pc == AfterReread(j, db[j])
     IN  IF pc = "return"
         THEN Return(th)
         ELSE frame' = [frame EXCEPT ![th] = [@ EXCEPT !.pc = pc, !.count = db[j].retry_count]]
  /\ UNCHANGED <<db, now, up, heap, loop, queue, handler, calls, crashes>>

\* One table update of execute, after which the thread goes to pc.
Write(th, from, tbl, pc) ==
  /\ frame[th].pc = from
  /\ db' = tbl
  /\ Goto(th, pc)
  /\ UNCHANGED <<now, up, heap, loop, queue, handler, calls, crashes>>

\* A table update after which execute returns.
WriteAndReturn(th, from, tbl) ==
  /\ frame[th].pc = from
  /\ db' = tbl
  /\ Return(th)
  /\ UNCHANGED <<now, up, heap, loop, queue, handler, calls, crashes>>

Repause(th) ==
  WriteAndReturn(th, "repause", UpdateStatus(db, frame[th].id, "Paused"))

RunStart(th) ==
  /\ frame[th].pc = "start"
  /\ Goto(th, "running")
  /\ UNCHANGED <<db, now, up, heap, loop, queue, handler, calls, crashes>>

\* Mutant: an exhausted schedule is not checked for.
IsLastUnchecked(j, n) == Kind[j] = "one_time"

IsLast(j, n) == n = NoTime \/ Kind[j] = "one_time"

\* runner_.run returned true; next_run is asked with the clock of that moment.
RunSucceed(th) ==
  /\ frame[th].pc = "running"
  /\ \E n \in NextRuns(frame[th].id, now) :
       IF IsLast(frame[th].id, n)
       THEN Goto(th, "complete")
       ELSE frame' = [frame EXCEPT ![th] = [@ EXCEPT !.pc = "set_active", !.next = n]]
  /\ UNCHANGED <<db, now, up, heap, loop, queue, handler, calls, crashes>>

\* Mutant: one retry too few.
RetryLeftStrict(th) == frame[th].count + 1 < MaxRetries[frame[th].id]

RetryLeft(th) == frame[th].count + 1 <= MaxRetries[frame[th].id]

RunFail(th) ==
  /\ frame[th].pc = "running"
  /\ Goto(th, IF RetryLeft(th) THEN "count_retry" ELSE "fail")
  /\ UNCHANGED <<db, now, up, heap, loop, queue, handler, calls, crashes>>

Complete(th) ==
  WriteAndReturn(th, "complete", UpdateStatus(db, frame[th].id, "Completed"))

\* Mutant: the code after the failure branch is not skipped.
FailFallsThrough(th) ==
  Write(th, "fail", UpdateStatus(db, frame[th].id, "Failed"), "set_retry_next")

Fail(th) ==
  WriteAndReturn(th, "fail", UpdateStatus(db, frame[th].id, "Failed"))

\* Mutant: the row is saved back, whether it is still there or not.
SetActiveUpsert(th) ==
  Write(th, "set_active", [db EXCEPT ![frame[th].id].status = "Active"], "set_next")

SetActive(th) ==
  Write(th, "set_active", UpdateStatus(db, frame[th].id, "Active"), "set_next")

\* Mutant: the next run time goes to the heap and not to the table.
SetNextForgotten(th) == Write(th, "set_next", db, "reset_count")

SetNext(th) ==
  Write(th, "set_next", UpdateNextRun(db, frame[th].id, frame[th].next),
        "reset_count")

\* Mutant: a success does not reset the retries.
ResetCountForgotten(th) == Write(th, "reset_count", db, "reschedule")

ResetCount(th) ==
  Write(th, "reset_count", UpdateRetryCount(db, frame[th].id, 0), "reschedule")

\* Mutant: a failed run is not counted.
CountRetryForgotten(th) == Write(th, "count_retry", db, "set_retry_next")

CountRetry(th) ==
  Write(th, "count_retry",
        UpdateRetryCount(db, frame[th].id, frame[th].count + 1), "set_retry_next")

\* The clock is read again for retry_at.
SetRetryNext(th) ==
  /\ frame[th].pc = "set_retry_next"
  /\ LET at == now + RetryDelay[frame[th].id]
     IN  /\ db' = UpdateNextRun(db, frame[th].id, at)
         /\ frame' = [frame EXCEPT ![th] = [@ EXCEPT !.pc = "set_retry_active", !.next = at]]
  /\ UNCHANGED <<now, up, heap, loop, queue, handler, calls, crashes>>

SetRetryActive(th) ==
  Write(th, "set_retry_active", UpdateStatus(db, frame[th].id, "Active"),
        "reschedule")

\* scheduler_.reschedule(job), taken for what schedule and resume do.
Reschedule(th) ==
  /\ frame[th].pc = "reschedule"
  /\ Push(frame[th].id, frame[th].next)
  /\ Return(th)
  /\ UNCHANGED <<db, now, up, loop, queue, handler, calls, crashes>>

-----------------------------------------------------------------------------
(* JobService, on handler thread c.  A call that fails its checks returns  *)
(* an error and changes nothing, so only calls that pass them are actions. *)

BeginCall(c, op, h) ==
  /\ up
  /\ op \in Ops
  /\ handler[c].pc = "idle"
  /\ calls < MaxCalls
  /\ calls' = calls + 1
  /\ handler' = [handler EXCEPT ![c] = h]

\* create_job up to writer_.save; a schedule with no run time is refused.
CreateSave(c, j) ==
  /\ db[j].status = "unused"
  /\ \E n \in NextRuns(j, now) \ {NoTime} :
       /\ db' = Save(db, j, n)
       /\ BeginCall(c, "create", [pc |-> "schedule", id |-> j, next |-> n])
  /\ UNCHANGED <<now, up, heap, loop, queue, frame, crashes>>

\* scheduler_.schedule or scheduler_.resume, the last step of both calls.
CallSchedule(c) ==
  /\ handler[c].pc = "schedule"
  /\ Push(handler[c].id, handler[c].next)
  /\ handler' = [handler EXCEPT ![c] = NoHandler]
  /\ UNCHANGED <<db, now, up, loop, queue, frame, calls, crashes>>

PauseFind(c, j) ==
  /\ Present(db, j)
  /\ db[j].status \notin {"Paused", "Completed", "Failed", "Cancelled"}
  /\ BeginCall(c, "pause", [NoHandler EXCEPT !.pc = "pause", !.id = j])
  /\ UNCHANGED <<db, now, up, heap, loop, queue, frame, crashes>>

\* update_status, then scheduler_.pause, which only wakes the loop.
PauseWrite(c) ==
  /\ handler[c].pc = "pause"
  /\ db' = UpdateStatus(db, handler[c].id, "Paused")
  /\ handler' = [handler EXCEPT ![c] = NoHandler]
  /\ UNCHANGED <<now, up, heap, loop, queue, frame, calls, crashes>>

ResumeFind(c, j) ==
  /\ Present(db, j)
  /\ db[j].status = "Paused"
  /\ BeginCall(c, "resume", [pc |-> "resume", id |-> j, next |-> db[j].next_run])
  /\ UNCHANGED <<db, now, up, heap, loop, queue, frame, crashes>>

\* Mutant: resume_job changes the row and does not tell the scheduler.
ResumeWriteOnly(c) ==
  /\ handler[c].pc = "resume"
  /\ db' = UpdateStatus(db, handler[c].id, "Active")
  /\ handler' = [handler EXCEPT ![c] = NoHandler]
  /\ UNCHANGED <<now, up, heap, loop, queue, frame, calls, crashes>>

ResumeWrite(c) ==
  /\ handler[c].pc = "resume"
  /\ db' = UpdateStatus(db, handler[c].id, "Active")
  /\ handler' = [handler EXCEPT ![c].pc = "schedule"]
  /\ UNCHANGED <<now, up, heap, loop, queue, frame, calls, crashes>>

DeleteFind(c, j) ==
  /\ Present(db, j)
  /\ BeginCall(c, "delete", [NoHandler EXCEPT !.pc = "delete", !.id = j])
  /\ UNCHANGED <<db, now, up, heap, loop, queue, frame, crashes>>

\* scheduler_.cancel only wakes the loop; the entry stays in the heap.
DeleteRemove(c) ==
  /\ handler[c].pc = "delete"
  /\ db' = Remove(db, handler[c].id)
  /\ handler' = [handler EXCEPT ![c] = NoHandler]
  /\ UNCHANGED <<now, up, heap, loop, queue, frame, calls, crashes>>

-----------------------------------------------------------------------------
LoopStep ==
  \/ LoopLock \/ LoopPop \/ LoopUnlock
  \/ LoopSkip \/ LoopExecute \/ LoopDispatch \/ LoopAgain
  \/ MarkRunning \/ Submit

RunnerReturns(th) == RunSucceed(th) \/ RunFail(th)

ExecuteStep(th) ==
  \/ Reread(th) \/ Repause(th) \/ RunStart(th)
  \/ Complete(th) \/ Fail(th)
  \/ SetActive(th) \/ SetNext(th) \/ ResetCount(th)
  \/ CountRetry(th) \/ SetRetryNext(th) \/ SetRetryActive(th)
  \/ Reschedule(th)

HandlerBegin(c) ==
  \E j \in Job : CreateSave(c, j) \/ PauseFind(c, j) \/ ResumeFind(c, j)
                 \/ DeleteFind(c, j)

HandlerStep(c) ==
  CallSchedule(c) \/ PauseWrite(c) \/ ResumeWrite(c) \/ DeleteRemove(c)

Next ==
  \/ Tick \/ Boot \/ Crash
  \/ LoopStep
  \/ \E w \in Worker : WorkerTake(w)
  \/ \E th \in Thread : ExecuteStep(th) \/ RunnerReturns(th)
  \/ \E c \in Client : HandlerBegin(c) \/ HandlerStep(c)

Spec == Init /\ [][Next]_vars

(***************************************************************************)
(* The operating system schedules every thread that can run.  Requests,    *)
(* crashes, restarts and the clock owe nothing; that commands terminate is *)
(* a separate assumption.                                                  *)
(***************************************************************************)
ThreadsProgress ==
  /\ WF_vars(LoopStep)
  /\ \A w \in Worker : WF_vars(WorkerTake(w))
  /\ \A th \in Thread : WF_vars(ExecuteStep(th))
  /\ \A c \in Client : WF_vars(HandlerStep(c))

CommandsTerminate == \A th \in Thread : WF_vars(RunnerReturns(th))

FairSpec == Spec /\ ThreadsProgress

=============================================================================

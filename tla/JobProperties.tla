--------------------------- MODULE JobProperties ----------------------------
(***************************************************************************)
(* What JobSystem promises, and what its source says of it.                *)
(***************************************************************************)
EXTENDS JobSystem, FiniteSetsExt

\* Every variable holds a value of its type, and a thread that is in a call is
\* in it for a job.
TypeOK ==
  /\ db \in [Job -> Row]
  /\ now \in 0 .. MaxNow
  /\ up \in BOOLEAN
  /\ heap \in [Job -> [Time -> Nat]]
  /\ loop \in LoopState
  /\ queue \in Seq(Job)
  /\ frame \in [Thread -> Frame]
  /\ handler \in [Client -> Handler]
  /\ calls \in 0 .. MaxCalls
  /\ crashes \in 0 .. MaxCrashes
  /\ loop.pc \in {"mark", "submit"} => loop.id \in Job
  /\ \A th \in Thread : frame[th].pc # "idle" => frame[th].id \in Job
  /\ \A c \in Client : handler[c].pc # "idle" => handler[c].id \in Job

-----------------------------------------------------------------------------
(* No job is lost.                                                         *)

Live(j) == db[j].status \in {"Active", "Running"}

Occurs(j, s) == \E i \in 1 .. Len(s) : s[i] = j

InHeap(j)      == \E t \in Time : heap[j][t] > 0
Dispatching(j) == loop.pc \in {"mark", "submit"} /\ loop.id = j
Executing(j)   == \E th \in Thread :
                    frame[th].id = j /\ frame[th].pc \notin {"idle", "repause"}
Scheduling(j)  == \E c \in Client :
                    handler[c].id = j /\ handler[c].pc = "schedule"

\* Something in memory will still act on job j.
Carried(j) ==
  \/ InHeap(j)
  \/ Occurs(j, loop.batch)
  \/ Dispatching(j)
  \/ Occurs(j, queue)
  \/ Executing(j)
  \/ Scheduling(j)

(***************************************************************************)
(* While the service is up, a job the table calls active or running is in  *)
(* the heap, in due_ids, in the pool's queue, or in the hands of a thread  *)
(* that will put it back or end it: no interleaving of the loop, the       *)
(* workers and the handlers, and no restart, drops it.                     *)
(***************************************************************************)
NoLostJob == up => \A j \in Job : Live(j) => Carried(j)

(***************************************************************************)
(* Once delete_job has removed a row, no late status or retry update of a  *)
(* run that was in flight, and no resume, brings the row back.             *)
(***************************************************************************)
DeletedStaysDeleted ==
  [][\A j \in Job : db[j].status = "removed" => db'[j].status = "removed"]_vars

(***************************************************************************)
(* execute gives up on a job (status Failed) only when the table shows     *)
(* every retry of its policy used, or when its stored schedule is bad.     *)
(***************************************************************************)
FailedMeansExhausted ==
  \A j \in Job : db[j].status = "Failed" =>
    j \in Unparsable \/ db[j].retry_count >= MaxRetries[j]

-----------------------------------------------------------------------------
(* What holds as long as nobody calls resume_job.                          *)

Positions(j, s) == {i \in DOMAIN s : s[i] = j}
Threads(j)      == {th \in Thread : frame[th].id = j}
Calls(j)        == {c \in Client : handler[c].id = j /\ handler[c].pc = "schedule"}

\* The places where the process holds job j: entries of the heap, of due_ids
\* and of the pool's queue, the call of dispatch, calls of execute, and calls
\* of create_job or resume_job that have yet to tell the scheduler.
Places(j) ==
  (UNION {{"heap"} \X {t} \X (1 .. heap[j][t]) : t \in Time})
  \cup ({"due_ids"} \X Positions(j, loop.batch))
  \cup (IF Dispatching(j) THEN {<<"dispatch">>} ELSE {})
  \cup ({"queue"} \X Positions(j, queue))
  \cup ({"execute"} \X Threads(j))
  \cup ({"call"} \X Calls(j))

(***************************************************************************)
(* A job is in at most one place: one heap entry, one queued call, one     *)
(* run.  So two workers never run the same job at once, and a job does not *)
(* run twice in one period.  A restart keeps it so.                        *)
(***************************************************************************)
OnePlace == \A j \in Job : \A p, q \in Places(j) : p = q

(***************************************************************************)
(* The heap is a working copy of the table: an entry carries the           *)
(* next_run_time that the job's row holds, in whole seconds.               *)
(***************************************************************************)
HeapAgreesWithTable ==
  \A j \in Job, t \in Time :
    heap[j][t] > 0 /\ Present(db, j) => db[j].next_run = ToTimeT(t)

(***************************************************************************)
(* A run is never early: from the moment execute has read the row until    *)
(* the runner returns, the row's next_run_time has passed.                 *)
(***************************************************************************)
RunsWhenDue ==
  \A th \in Thread :
    LET j == frame[th].id
    IN  frame[th].pc \in {"start", "running"} /\ Present(db, j)
          => db[j].next_run <= now

(***************************************************************************)
(* A job that has completed or failed never becomes active or running      *)
(* again.                                                                  *)
(***************************************************************************)
TerminalIsFinal ==
  [][\A j \in Job : db[j].status \in {"Completed", "Failed"} => ~Live(j)']_vars

\* The thread that runs job j is at one of these points of execute.
At(j, pcs) == \E th \in Thread : frame[th].id = j /\ frame[th].pc \in pcs

OnThread(j) == \E th \in Thread : frame[th].id = j

\* Some place holds job j.
Held(j) ==
  \/ InHeap(j) \/ Occurs(j, loop.batch) \/ Dispatching(j)
  \/ Occurs(j, queue) \/ OnThread(j) \/ Scheduling(j)

\* How far job j is, as JobLife counts it.
StageOf(j) ==
  CASE At(j, {"start", "running"})                    -> "running"
    [] At(j, {"complete", "set_active"})              -> "won"
    [] At(j, {"set_next", "reset_count"})             -> "renewing"
    [] At(j, {"count_retry", "fail"})                 -> "lost"
    [] At(j, {"set_retry_next", "set_retry_active"})  -> "retrying"
    [] OTHER -> IF Held(j) THEN "waiting" ELSE "out"

stage == [j \in Job |-> StageOf(j)]

Life == INSTANCE JobLife WITH row <- db

(***************************************************************************)
(* Each job lives as JobLife says: seen from one job, the loop, the        *)
(* workers, the handlers and the crashes are one sequential machine.  It   *)
(* runs when it is due and live, its retries are counted, and the process  *)
(* lets go of it only when its row says so.                                *)
(***************************************************************************)
ImplementsJobLife == Life!Spec

-----------------------------------------------------------------------------
(* Liveness.                                                               *)

Running(j) == \E th \in Thread : frame[th].id = j /\ frame[th].pc = "running"

\* The table has cut next_run_time to the second; the heap may not have.
Due(j) == up /\ Live(j) /\ db[j].next_run + Second - 1 <= now

(***************************************************************************)
(* If commands end, a due job is run, unless it is first paused, deleted,  *)
(* ended or moved to a later time, or the process dies.                    *)
(***************************************************************************)
DueJobRuns ==
  CommandsTerminate => \A j \in Job : Due(j) ~> (Running(j) \/ ~Due(j))

\* No entry of the job waits for a later time than its row's.
DueInHeap(j) == Due(j) /\ \A t \in Time : heap[j][t] > 0 => t <= now

(***************************************************************************)
(* The same with handlers that overlap, for a job no entry of which is     *)
(* late: resume_job pushes the time that it read before its write, which   *)
(* may be later than what a run or another handler left in the row.        *)
(***************************************************************************)
DueEntryRuns ==
  CommandsTerminate => \A j \in Job : DueInHeap(j) ~> (Running(j) \/ ~DueInHeap(j))

(***************************************************************************)
(* The planning document, section 4.1: "running a job never blocks the     *)
(* scheduler loop from checking what is due next".  Whatever a command     *)
(* does, even if it never ends, the loop gets back to its heap.            *)
(***************************************************************************)
LoopReturnsToHeap == (loop.pc = "each") ~> (loop.pc = "wait")

-----------------------------------------------------------------------------
(* Statements of the source that the code does not keep.                   *)

(***************************************************************************)
(* Scheduler.hpp: a paused job "will be skipped when due".  So it does not *)
(* become active or running again before it is resumed.                    *)
(***************************************************************************)
PauseSticks ==
  [][\A j \in Job :
       db[j].status = "Paused" /\ Live(j)'
         => \E c \in Client : handler[c].id = j /\ ResumeWrite(c)]_vars

(***************************************************************************)
(* Executor.cpp, where execute finds the job paused: "Restore active       *)
(* status so it can be resumed later".  So execute never turns an active   *)
(* job into a paused one; only pause_job does.                             *)
(***************************************************************************)
OnlyPauseJobPauses ==
  [][\A j \in Job :
       db[j].status = "Active" /\ db'[j].status = "Paused"
         => \E c \in Client : handler[c].id = j /\ PauseWrite(c)]_vars

=============================================================================

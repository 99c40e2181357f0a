------------------------------ MODULE JobLife -------------------------------
(***************************************************************************)
(* What the service promises of each job as long as nobody calls           *)
(* resume_job: a life of its own, one step after the other, whatever the   *)
(* threads of the process do at the same time.                             *)
(*                                                                         *)
(* A job waits, runs once its time has come, and is won or lost; then its  *)
(* row is brought up to date, column by column, and it waits again or has  *)
(* ended.  Clients change the row between any two steps.                   *)
(***************************************************************************)
EXTENDS JobStore

VARIABLES
  now,   \* the clock
  row,   \* the jobs table
  stage  \* how far each job is

lvars == <<now, row, stage>>

\* "out": the process has nothing to do for the job.
Stage == {"out", "waiting", "running", "won", "renewing", "lost", "retrying"}

Init ==
  /\ now = 0
  /\ row = [j \in Job |-> Vacant("unused")]
  /\ stage = [j \in Job |-> "out"]

Move(j, from, to) ==
  /\ stage[j] = from
  /\ stage' = [stage EXCEPT ![j] = to]
  /\ UNCHANGED now

Stay == UNCHANGED <<now, stage>>

Tick == now < MaxNow /\ now' = now + 1 /\ UNCHANGED <<row, stage>>

Live(j) == row[j].status \in {"Active", "Running"}

\* A row that was deleted holds nobody back.
Due(j)      == Present(row, j) => row[j].next_run <= now
MayRetry(j) == Present(row, j) => row[j].retry_count < MaxRetries[j]
UsedUp(j)   == Present(row, j) => row[j].retry_count >= MaxRetries[j]

-----------------------------------------------------------------------------
(* Clients, and the process as a whole.                                    *)

\* The first run time lies ahead, and an id is used once.
Create(j) ==
  /\ row[j].status = "unused"
  /\ Move(j, "out", "waiting")
  /\ \E t \in Time : t > now /\ row' = Save(row, j, t)

Pause(j)  == row' = UpdateStatus(row, j, "Paused") /\ Stay
Delete(j) == row' = Remove(row, j) /\ Stay

Die == stage' = [j \in Job |-> "out"] /\ UNCHANGED <<now, row>>

\* A run cut short by the end of the process is run again.
Restart ==
  /\ \A j \in Job : stage[j] = "out"
  /\ stage' = [j \in Job |-> IF Live(j) THEN "waiting" ELSE "out"]
  /\ UNCHANGED <<now, row>>

-----------------------------------------------------------------------------
(* A job's run.                                                            *)

\* The row says Running before the job runs, but not before its time.
Mark(j) ==
  /\ stage[j] = "waiting"
  /\ Due(j)
  /\ row' = UpdateStatus(row, j, "Running")
  /\ Stay

\* The process lets go of a job only if its row says that it shall not run.
Drop(j) == ~Live(j) /\ Move(j, "waiting", "out") /\ UNCHANGED row

Begin(j) ==
  /\ Live(j)
  /\ Due(j)
  /\ j \notin Unparsable
  /\ Move(j, "waiting", "running")
  /\ UNCHANGED row

Refuse(j) ==
  /\ Live(j)
  /\ j \in Unparsable
  /\ Move(j, "waiting", "lost")
  /\ UNCHANGED row

Win(j)  == Move(j, "running", "won") /\ UNCHANGED row
Lose(j) == Move(j, "running", "lost") /\ UNCHANGED row

\* An interval never ends, a one_time job always does.
Complete(j) ==
  /\ Kind[j] # "interval"
  /\ Move(j, "won", "out")
  /\ row' = UpdateStatus(row, j, "Completed")

Renew(j) ==
  /\ Kind[j] # "one_time"
  /\ Move(j, "won", "renewing")
  /\ row' = UpdateStatus(row, j, "Active")

\* After a success the run time moves forward.
Advance(j) ==
  /\ stage[j] = "renewing"
  /\ \E t \in Time : t >= row[j].next_run /\ row' = UpdateNextRun(row, j, t)
  /\ Stay

Renewed(j) ==
  Move(j, "renewing", "waiting") /\ row' = UpdateRetryCount(row, j, 0)

GiveUp(j) ==
  /\ j \in Unparsable \/ UsedUp(j)
  /\ Move(j, "lost", "out")
  /\ row' = UpdateStatus(row, j, "Failed")

Retry(j) ==
  /\ MayRetry(j)
  /\ Move(j, "lost", "retrying")
  /\ row' = UpdateRetryCount(row, j, row[j].retry_count + 1)

Delay(j) ==
  /\ stage[j] = "retrying"
  /\ \E t \in Time : row' = UpdateNextRun(row, j, t)
  /\ Stay

Retried(j) ==
  Move(j, "retrying", "waiting") /\ row' = UpdateStatus(row, j, "Active")

-----------------------------------------------------------------------------
ClientStep(j) == Create(j) \/ Pause(j) \/ Delete(j)

JobStep(j) ==
  \/ Mark(j) \/ Drop(j) \/ Begin(j) \/ Refuse(j) \/ Win(j) \/ Lose(j)
  \/ Complete(j) \/ Renew(j) \/ Advance(j) \/ Renewed(j)
  \/ GiveUp(j) \/ Retry(j) \/ Delay(j) \/ Retried(j)

Next ==
  \/ Tick \/ Die \/ Restart
  \/ \E j \in Job : ClientStep(j) \/ JobStep(j)

Spec == Init /\ [][Next]_lvars

=============================================================================

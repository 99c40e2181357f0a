----------------------------- MODULE HistoryProofs -----------------------------
(***************************************************************************)
(* Theorems about what the runs of a job add up to, as long as nobody      *)
(* calls resume_job: the retry budget, the retry count, and the single     *)
(* success of a one_time job.                                              *)
(***************************************************************************)
EXTENDS PlaceProofs, JobHistory

USE DEF Goto, Return

-----------------------------------------------------------------------------
(* The inductive invariant.                                                *)

Budget(j) == Max({MaxRetries[j], 0})

\* The table calls job j live, or something in the process holds it.
InPlay(j) == Live(j) \/ Held(j)

\* The points of execute where the table does not yet show how the run ended.
Unsettled == {"complete", "fail", "set_active", "set_next", "reset_count", "count_retry"}

\* What a thread inside execute knows of its job's failures.
FrameCounts(th) ==
  LET f == frame[th]
      j == f.id
  IN  /\ f.pc \in {"start", "running", "count_retry", "fail"} =>
           /\ f.count <= Budget(j)
           /\ Present(db, j) => f.count = db[j].retry_count
      /\ f.pc = "count_retry" => f.count + 1 <= MaxRetries[j]
      /\ f.pc = "fail" => j \in Unparsable \/ f.count >= MaxRetries[j]
      /\ f.pc \in {"start", "running"} => fails[j] <= f.count + crashes
      /\ f.pc \in {"count_retry", "fail"} => fails[j] <= f.count + 1 + crashes
      /\ f.pc = "count_retry" /\ crashes = 0 /\ Present(db, j) => fails[j] = f.count + 1
      /\ f.pc \in {"complete", "set_active", "set_next", "reset_count"} => fails[j] = 0

\* What the row of job j says of its failures and successes: it lags behind by
\* the crashes, and by the run whose end is not written yet.
RowCounts(j) ==
  /\ db[j].retry_count <= Budget(j)
  /\ fails[j] <= Budget(j) + 1 + crashes
  /\ db[j].status = "unused" => fails[j] = 0 /\ wins[j] = 0
  /\ InPlay(j) /\ Present(db, j) /\ ~At(j, {"count_retry", "fail"})
       => fails[j] <= db[j].retry_count + crashes
  /\ crashes = 0 /\ Held(j) /\ Present(db, j) /\ ~At(j, Unsettled)
       => fails[j] = db[j].retry_count
  /\ wins[j] <= 1 + crashes
  /\ InPlay(j) /\ ~At(j, {"complete"}) => wins[j] <= crashes
  /\ db[j].status = "Failed" => j \in Unparsable \/ db[j].retry_count >= MaxRetries[j]

Counts(j) ==
  /\ RowCounts(j)
  /\ \A th \in Thread : frame[th].id = j => FrameCounts(th)

HTypeOK == fails \in [Job -> Nat] /\ wins \in [Job -> Nat]

\* A process that never crashed and is not running has yet to start.
NotStarted == ~up /\ crashes = 0 => \A j \in Job : db[j].status = "unused"

CountInv ==
  /\ HTypeOK
  /\ NotStarted
  /\ \A j \in Job : Counts(j)

-----------------------------------------------------------------------------
(* The table and the two counters.                                         *)

\* The larger of max_retries and 0.
LEMMA BudgetBounds ==
  ASSUME NEW j \in Job
  PROVE  /\ MaxRetries[j] \in Int /\ Budget(j) \in Nat
         /\ MaxRetries[j] <= Budget(j)
         /\ Budget(j) = 0 \/ Budget(j) = MaxRetries[j]
<1> DEFINE S == {MaxRetries[j], 0}
<1>1. MaxRetries[j] \in Int
  BY ModelAssumption DEF ModelAssumption
<1>2. \E x \in S : \A y \in S : x >= y
  BY <1>1
<1>3. Max(S) \in S /\ \A y \in S : Max(S) >= y
  BY <1>2 DEF Max
<1> QED
  BY <1>1, <1>3 DEF Budget

\* Job k's row is as far as it was in its retries, or gone.
SameCount(k) ==
  /\ Present(db', k) => Present(db, k) /\ db'[k].retry_count = db[k].retry_count
  /\ db'[k].retry_count \in {db[k].retry_count, 0}
  /\ db'[k].status = "unused" => db[k].status = "unused"
  /\ db'[k].status = "Failed" => db[k].status = "Failed"

\* What a table operation on job j does to job k's retry count.
LEMMA TableCounts ==
  ASSUME TypeOK, NEW j \in Job, NEW k \in Job
  PROVE  /\ db' = db => SameCount(k)
         /\ \A s \in JobStatus : db' = UpdateStatus(db, j, s) /\ (k # j \/ s # "Failed")
              => SameCount(k)
         /\ \A t \in Time : db' = UpdateNextRun(db, j, t) => SameCount(k)
         /\ \A n \in Nat : db' = UpdateRetryCount(db, j, n) /\ k # j => SameCount(k)
         /\ \A t \in Time : db' = Save(db, j, t) /\ k # j => SameCount(k)
         /\ db' = Remove(db, j) => SameCount(k)
<1> USE DEF SameCount, Present, Row, JobStatus
<1> db \in [Job -> Row]
  BY DEF TypeOK
<1>1. \A s \in JobStatus : db' = UpdateStatus(db, j, s) /\ (k # j \/ s # "Failed")
        => SameCount(k)
  BY DEF UpdateStatus
<1>2. \A t \in Time : db' = UpdateNextRun(db, j, t) => SameCount(k)
  BY DEF UpdateNextRun
<1>3. \A n \in Nat : db' = UpdateRetryCount(db, j, n) /\ k # j => SameCount(k)
  BY DEF UpdateRetryCount
<1>4. \A t \in Time : db' = Save(db, j, t) /\ k # j => SameCount(k)
  BY DEF Save
<1>5. db' = Remove(db, j) => SameCount(k)
  BY DEF Remove, Vacant
<1> QED
  BY <1>1, <1>2, <1>3, <1>4, <1>5

\* The counters watch: they count what HNext says, and are numbers.
LEMMA HistoryTypes == ASSUME HTypeOK, HNext PROVE HTypeOK'
<1>1. \A j \in Job : fails[j] \in Nat /\ wins[j] \in Nat
  BY DEF HTypeOK
<1> QED
  BY <1>1 DEF HTypeOK, HNext

\* A job whose thread gets no answer from the runner keeps its counters.
LEMMA NoAnswer ==
  ASSUME TypeOK, HNext, NEW k \in Job,
         \A th \in Thread : frame[th].id = k /\ frame[th].pc = "running" =>
           \/ frame'[th] = frame[th]
           \/ frame'[th].pc \notin {"complete", "set_active", "count_retry", "fail"}
  PROVE  fails'[k] = fails[k] /\ wins'[k] = wins[k]
<1>1. frame \in [Thread -> Frame]
  BY DEF TypeOK
<1>2. ASSUME NEW th \in Thread, RunSucceed(th)
      PROVE  frame[th].pc = "running" /\ frame'[th].pc \in {"complete", "set_active"}
  BY <1>1, <1>2 DEF RunSucceed, Frame
<1>3. ASSUME NEW th \in Thread, RunFail(th)
      PROVE  frame[th].pc = "running" /\ frame'[th].pc \in {"count_retry", "fail"}
  BY <1>1, <1>3 DEF RunFail, Frame
<1>4. ~Succeeded(k) /\ ~FailedRun(k)
  BY <1>2, <1>3 DEF Succeeded, FailedRun
<1> QED
  BY <1>4 DEF HNext

\* An answer of the runner is counted for the job that ran, once.
LEMMA AnswerCounted ==
  ASSUME TypeOK, HNext, NEW th \in Thread, NEW k \in Job, frame[th].id = k,
         \A x \in Thread : x # th => frame'[x] = frame[x]
  PROVE  /\ RunSucceed(th) =>
              /\ fails'[k] = 0
              /\ wins'[k] = IF Kind[k] = "one_time" THEN wins[k] + 1 ELSE wins[k]
         /\ RunFail(th) => fails'[k] = fails[k] + 1 /\ wins'[k] = wins[k]
<1>1. frame \in [Thread -> Frame]
  BY DEF TypeOK
<1>2. ASSUME NEW x \in Thread, RunSucceed(x)
      PROVE  frame[x].pc = "running" /\ frame'[x].pc \in {"complete", "set_active"}
  BY <1>1, <1>2 DEF RunSucceed, Frame
<1>3. ASSUME NEW x \in Thread, RunFail(x)
      PROVE  frame[x].pc = "running" /\ frame'[x].pc \in {"count_retry", "fail"}
  BY <1>1, <1>3 DEF RunFail, Frame
<1>4. RunSucceed(th) => Succeeded(k)
  BY DEF Succeeded
<1>5. RunFail(th) => FailedRun(k) /\ ~Succeeded(k)
  BY <1>2, <1>3 DEF FailedRun, Succeeded
<1> QED
  BY <1>4, <1>5 DEF HNext

\* What adds up for job k goes on adding up where its row keeps its count, no
\* place takes it up anew, and no thread moves on with it but out of the pool.
LEMMA CountsStay ==
  ASSUME TypeOK, HTypeOK, NEW k \in Job, Counts(k),
         fails'[k] = fails[k], wins'[k] = wins[k], crashes' = crashes, SameCount(k),
         \A th \in Thread : frame'[th].id = k =>
           frame'[th] = frame[th] \/ frame'[th].pc = "reread",
         \A th \in Thread : frame[th].id = k /\ frame[th].pc \in Unsettled =>
           frame'[th] = frame[th],
         InPlay(k)' => InPlay(k), Held(k)' => Held(k)
  PROVE  Counts(k)'
<1>1. /\ \A th \in Thread : frame'[th].id = k => FrameCounts(th)'
  <2> SUFFICES ASSUME NEW th \in Thread, frame'[th].id = k PROVE FrameCounts(th)'
    OBVIOUS
  <2>1. CASE frame'[th].pc = "reread"
    BY <2>1 DEF FrameCounts
  <2>2. CASE frame'[th] = frame[th]
    <3>1. FrameCounts(th) /\ frame[th].id = k
      BY <2>2 DEF Counts
    <3> QED
      BY <2>2, <3>1 DEF FrameCounts, SameCount, Budget, Present
  <2> QED
    BY <2>1, <2>2
<1>2. \A pcs : pcs \subseteq Unsettled => (At(k, pcs) => At(k, pcs)')
  BY DEF At
<1>3. /\ At(k, {"count_retry", "fail"}) => At(k, {"count_retry", "fail"})'
      /\ At(k, Unsettled) => At(k, Unsettled)'
      /\ At(k, {"complete"}) => At(k, {"complete"})'
  BY <1>2 DEF Unsettled
<1>4. Budget(k) \in Nat /\ db[k].retry_count \in Nat
  BY BudgetBounds DEF TypeOK, Row
<1>5. RowCounts(k) /\ Budget(k)' = Budget(k)
  BY DEF Counts, Budget
<1> HIDE DEF At, InPlay, Held
<1>6. RowCounts(k)'
  BY <1>3, <1>4, <1>5 DEF RowCounts, SameCount, Present, JobStatus
<1> QED
  BY <1>1, <1>6 DEF Counts

-----------------------------------------------------------------------------
(* One job through execute.                                                *)

\* A step of execute is not the runner's answer.
LEMMA StepKeepsCounters ==
  ASSUME TypeOK, HNext, NEW th \in Thread, ExecuteStep(th), NEW k \in Job
  PROVE  fails'[k] = fails[k] /\ wins'[k] = wins[k]
<1>1. frame[th].pc # "running"
  BY DEF ExecuteStep, Reread, Repause, RunStart, Complete, Fail, SetActive, SetNext,
         ResetCount, CountRetry, SetRetryNext, SetRetryActive, Reschedule, Write,
         WriteAndReturn
<1>2. \A x \in Thread : x # th => frame'[x] = frame[x]
  BY ExecuteMoves DEF TypeOK
<1> QED
  BY <1>1, <1>2, NoAnswer

\* What must hold of job k after a step of execute, in terms of its thread.
LEMMA CountsAfter ==
  ASSUME NEW k \in Job, NEW th \in Thread,
         \A x \in Thread : frame'[x].id = k => x = th,
         RowCounts(k)', frame'[th].id = k => FrameCounts(th)'
  PROVE  Counts(k)'
BY DEF Counts

\* The numbers that are compared.
LEMMA NumbersOK ==
  ASSUME TypeOK, HTypeOK, NEW k \in Job, NEW th \in Thread
  PROVE  /\ frame \in [Thread -> Frame] /\ frame[th] \in Frame /\ frame[th].count \in Nat
         /\ db \in [Job -> Row] /\ db[k] \in Row /\ db[k].retry_count \in Nat
         /\ fails[k] \in Nat /\ wins[k] \in Nat /\ crashes \in Nat
<1>1. frame \in [Thread -> Frame] /\ db \in [Job -> Row]
  BY DEF TypeOK
<1>2. frame[th] \in Frame /\ db[k] \in Row
  BY <1>1
<1>3. crashes \in Nat
  BY SystemAssumption DEF TypeOK, SystemAssumption
<1> QED
  BY <1>1, <1>2, <1>3 DEF HTypeOK, Frame, Row

\* Where a run begins, goes on, or is given up before it began.
LEMMA BeforeRun ==
  ASSUME TypeOK, HTypeOK, PlaceInv, NEW k \in Job, Counts(k),
         NEW th \in Thread, frame[th].id = k,
         Reread(th) \/ RunStart(th) \/ Repause(th) \/ Reschedule(th),
         \A x \in Thread : frame'[x].id = k => x = th,
         fails'[k] = fails[k], wins'[k] = wins[k], crashes' = crashes,
         Held(k)' => Held(k)
  PROVE  Counts(k)'
<1>1. /\ frame \in [Thread -> Frame] /\ frame[th] \in Frame /\ frame[th].count \in Nat
      /\ db \in [Job -> Row] /\ db[k] \in Row /\ db[k].retry_count \in Nat
      /\ fails[k] \in Nat /\ wins[k] \in Nat /\ crashes \in Nat
  BY NumbersOK
<1>2. Budget(k) \in Nat /\ MaxRetries[k] \in Int /\ Budget(k)' = Budget(k)
  BY BudgetBounds DEF Budget
<1>3. /\ Held(k) /\ InPlay(k)
      /\ \A pcs : At(k, pcs) <=> frame[th].pc \in pcs
  BY OnlyThere DEF Held, OnThread, InPlay, At
<1>4. RowCounts(k) /\ FrameCounts(th)
  BY DEF Counts
<1>5. \A pcs : At(k, pcs)' <=> frame'[th].id = k /\ frame'[th].pc \in pcs
  BY DEF At
<1> HIDE DEF At, Held
<1>6. CASE Reread(th)
  <2> DEFINE pc == AfterReread(k, db[k])
  <2>1. frame[th].pc = "reread" /\ db' = db
    BY <1>6 DEF Reread
  <2>2. /\ fails[k] <= Budget(k) + 1 + crashes
        /\ db[k].retry_count <= Budget(k)
        /\ wins[k] <= crashes
        /\ Present(db, k) => fails[k] <= db[k].retry_count + crashes
        /\ crashes = 0 /\ Present(db, k) => fails[k] = db[k].retry_count
    BY <1>3, <1>4, <2>1 DEF RowCounts, Unsettled
  <2>5. RowCounts(k)'
    BY <1>1, <1>2, <1>4, <1>5, <2>1, <2>2 DEF RowCounts, Present
  <2>3. CASE pc = "return"
    <3>1. frame'[th] = NoFrame
      BY <1>1, <1>6, <2>3 DEF Reread
    <3>2. frame'[th].id # k
      BY <3>1, SystemAssumption DEF NoFrame, SystemAssumption
    <3> QED
      BY <2>5, <3>2, CountsAfter
  <2>4. CASE pc # "return"
    <3>1. frame'[th] = [frame[th] EXCEPT !.pc = pc, !.count = db[k].retry_count]
      BY <1>1, <1>6, <2>4 DEF Reread
    <3>2. pc \in {"repause", "fail", "start"} /\ Present(db, k) /\ (pc = "fail" => k \in Unparsable)
      BY <2>4 DEF AfterReread, Present
    <3>3. frame'[th].id = k /\ frame'[th].pc = pc /\ frame'[th].count = db[k].retry_count
      BY <1>1, <3>1 DEF Frame
    <3> HIDE DEF pc
    <3>4. FrameCounts(th)'
      <4>1. CASE pc = "repause"
        BY <3>3, <4>1 DEF FrameCounts
      <4>2. CASE pc = "fail"
        BY <1>1, <1>2, <2>1, <2>2, <3>2, <3>3, <4>2 DEF FrameCounts
      <4>3. CASE pc = "start"
        BY <1>1, <1>2, <2>1, <2>2, <3>2, <3>3, <4>3 DEF FrameCounts
      <4> QED
        BY <3>2, <4>1, <4>2, <4>3
    <3> QED
      BY <2>5, <3>4, CountsAfter
  <2> QED
    BY <2>3, <2>4
<1>7. CASE RunStart(th)
  <2>1. /\ frame[th].pc = "start" /\ db' = db
        /\ frame'[th] = [frame[th] EXCEPT !.pc = "running"]
    BY <1>1, <1>7 DEF RunStart
  <2>2. /\ frame'[th].pc = "running" /\ frame'[th].id = k
        /\ frame'[th].count = frame[th].count
    BY <1>1, <2>1 DEF Frame
  <2>3. FrameCounts(th)'
    BY <1>1, <1>2, <1>4, <2>1, <2>2 DEF FrameCounts
  <2>4. RowCounts(k)'
    BY <1>1, <1>2, <1>3, <1>4, <1>5, <2>1 DEF RowCounts, Present, Unsettled
  <2> QED
    BY <2>3, <2>4, CountsAfter
<1>8. CASE Repause(th) \/ Reschedule(th)
  <2>1. /\ frame[th].pc \in {"repause", "reschedule"} /\ frame'[th] = NoFrame
        /\ SameCount(k)
    <3>1. db' = db \/ db' = UpdateStatus(db, k, "Paused")
      BY <1>8 DEF Repause, Reschedule, WriteAndReturn
    <3>2. SameCount(k)
      BY <3>1, TableCounts DEF JobStatus
    <3> QED
      BY <1>1, <1>8, <3>2 DEF Repause, Reschedule, WriteAndReturn
  <2>2. frame'[th].id # k
    BY <2>1, SystemAssumption DEF NoFrame, SystemAssumption
  <2>3. RowCounts(k)'
    BY <1>1, <1>2, <1>3, <1>4, <1>5, <2>1
       DEF RowCounts, SameCount, Present, Unsettled, JobStatus
  <2> QED
    BY <2>2, <2>3, CountsAfter
<1> QED
  BY <1>6, <1>7, <1>8

\* Where the runner answers.
LEMMA AfterRun ==
  ASSUME TypeOK, HTypeOK, PlaceInv, NEW k \in Job, Counts(k), HNext,
         NEW th \in Thread, frame[th].id = k, RunnerReturns(th),
         \A x \in Thread : x # th => frame'[x] = frame[x],
         \A x \in Thread : frame'[x].id = k => x = th,
         crashes' = crashes, Held(k)' => Held(k)
  PROVE  Counts(k)'
<1>1. /\ frame \in [Thread -> Frame] /\ frame[th] \in Frame /\ frame[th].count \in Nat
      /\ db \in [Job -> Row] /\ db[k] \in Row /\ db[k].retry_count \in Nat
      /\ fails[k] \in Nat /\ wins[k] \in Nat /\ crashes \in Nat
  BY NumbersOK
<1>2. Budget(k) \in Nat /\ MaxRetries[k] \in Int /\ Budget(k)' = Budget(k)
  BY BudgetBounds DEF Budget
<1>3. /\ Held(k) /\ InPlay(k)
      /\ \A pcs : At(k, pcs) <=> frame[th].pc \in pcs
  BY OnlyThere DEF Held, OnThread, InPlay, At
<1>4. RowCounts(k) /\ FrameCounts(th)
  BY DEF Counts
<1>5. \A pcs : At(k, pcs)' <=> frame'[th].id = k /\ frame'[th].pc \in pcs
  BY DEF At
<1> HIDE DEF At, Held
<1>6. db' = db /\ frame[th].pc = "running"
  BY DEF RunnerReturns, RunSucceed, RunFail
<1>7. /\ frame[th].count <= Budget(k) /\ fails[k] <= frame[th].count + crashes
      /\ Present(db, k) => frame[th].count = db[k].retry_count
      /\ db[k].retry_count <= Budget(k)
      /\ db[k].status # "unused"
      /\ wins[k] <= crashes
      /\ crashes = 0 /\ Present(db, k) => fails[k] = db[k].retry_count
      /\ db[k].status = "Failed" => k \in Unparsable \/ db[k].retry_count >= MaxRetries[k]
  <2>1. db[k].status # "unused"
    BY <1>3 DEF PlaceInv, EndedIsUnheld
  <2> QED
    BY <1>3, <1>4, <1>6, <2>1 DEF RowCounts, FrameCounts, Unsettled
<1>8. CASE RunSucceed(th)
  <2>1. /\ fails'[k] = 0
        /\ wins'[k] = IF Kind[k] = "one_time" THEN wins[k] + 1 ELSE wins[k]
    BY <1>8, AnswerCounted
  <2>2. /\ frame'[th].id = k
        /\ frame'[th].pc \in {"complete", "set_active"}
        /\ frame'[th].pc = "set_active" => Kind[k] # "one_time"
    BY <1>1, <1>8 DEF RunSucceed, IsLast, Frame
  <2>3. FrameCounts(th)'
    BY <2>1, <2>2 DEF FrameCounts
  <2>4. RowCounts(k)'
    BY <1>1, <1>2, <1>5, <1>6, <1>7, <2>1, <2>2 DEF RowCounts, Present, Unsettled
  <2> QED
    BY <2>3, <2>4, CountsAfter
<1>9. CASE RunFail(th)
  <2>1. fails'[k] = fails[k] + 1 /\ wins'[k] = wins[k]
    BY <1>9, AnswerCounted
  <2>2. /\ frame'[th].id = k /\ frame'[th].count = frame[th].count
        /\ frame'[th].pc \in {"count_retry", "fail"}
        /\ frame'[th].pc = "count_retry" <=> frame[th].count + 1 <= MaxRetries[k]
    BY <1>1, <1>9 DEF RunFail, RetryLeft, Frame
  <2>3. FrameCounts(th)'
    BY <1>1, <1>2, <1>6, <1>7, <2>1, <2>2 DEF FrameCounts, Present
  <2>4. RowCounts(k)'
    BY <1>1, <1>2, <1>5, <1>6, <1>7, <2>1, <2>2 DEF RowCounts, Present, Unsettled
  <2> QED
    BY <2>3, <2>4, CountsAfter
<1> QED
  BY <1>8, <1>9 DEF RunnerReturns

\* Where execute writes to the table how the run ended.
LEMMA WritesResult ==
  ASSUME TypeOK, HTypeOK, PlaceInv, NEW k \in Job, Counts(k),
         NEW th \in Thread, frame[th].id = k, ExecuteStep(th),
         ~(Reread(th) \/ RunStart(th) \/ Repause(th) \/ Reschedule(th)),
         \A x \in Thread : frame'[x].id = k => x = th,
         fails'[k] = fails[k], wins'[k] = wins[k], crashes' = crashes,
         Held(k)' => Held(k)
  PROVE  Counts(k)'
<1>1. /\ frame \in [Thread -> Frame] /\ frame[th] \in Frame /\ frame[th].count \in Nat
      /\ db \in [Job -> Row] /\ db[k] \in Row /\ db[k].retry_count \in Nat
      /\ fails[k] \in Nat /\ wins[k] \in Nat /\ crashes \in Nat
  BY NumbersOK
<1>2. /\ Budget(k) \in Nat /\ MaxRetries[k] \in Int /\ Budget(k)' = Budget(k)
      /\ MaxRetries[k] <= Budget(k)
  BY BudgetBounds DEF Budget
<1>3. /\ Held(k) /\ InPlay(k)
      /\ \A pcs : At(k, pcs) <=> frame[th].pc \in pcs
  BY OnlyThere DEF Held, OnThread, InPlay, At
<1>4. RowCounts(k) /\ FrameCounts(th)
  BY DEF Counts
<1>5. \A pcs : At(k, pcs)' <=> frame'[th].id = k /\ frame'[th].pc \in pcs
  BY DEF At
<1>6. db[k].status \notin {"unused", "Completed", "Failed"}
  BY <1>3 DEF PlaceInv, EndedIsUnheld
<1>7. NoFrame.id # k
  BY SystemAssumption DEF NoFrame, SystemAssumption
<1> HIDE DEF At, Held
<1>8. /\ fails[k] <= Budget(k) + 1 + crashes
      /\ db[k].retry_count <= Budget(k)
      /\ wins[k] <= 1 + crashes
      /\ frame[th].pc # "complete" => wins[k] <= crashes
  BY <1>3, <1>4 DEF RowCounts
<1>9. CASE SetActive(th) \/ SetNext(th) \/ SetRetryNext(th) \/ SetRetryActive(th)
  <2>1. SameCount(k)
    <3>1. \/ db' = UpdateStatus(db, k, "Active")
          \/ db' = UpdateNextRun(db, k, frame[th].next)
          \/ db' = UpdateNextRun(db, k, now + RetryDelay[k])
      BY <1>9 DEF SetActive, SetNext, SetRetryNext, SetRetryActive, Write
    <3>2. frame[th].next \in Time /\ now + RetryDelay[k] \in Time
      <4>1. now \in 0 .. MaxNow /\ RetryDelay[k] \in 0 .. MaxSpan
        BY ModelAssumption DEF TypeOK, ModelAssumption
      <4> QED
        BY <1>1, <4>1, ModelAssumption DEF Time, Frame, ModelAssumption
    <3> QED
      BY <3>1, <3>2, TableCounts DEF JobStatus
  <2>2. /\ frame'[th].id = k
        /\ <<frame[th].pc, frame'[th].pc>> \in
             {<<"set_active", "set_next">>, <<"set_next", "reset_count">>,
              <<"set_retry_next", "set_retry_active">>,
              <<"set_retry_active", "reschedule">>}
    BY <1>1, <1>9 DEF SetActive, SetNext, SetRetryNext, SetRetryActive, Write, Frame
  <2>3. /\ frame[th].pc \in {"set_active", "set_next", "set_retry_next", "set_retry_active"}
        /\ frame'[th].pc \in {"set_next", "reset_count", "set_retry_active", "reschedule"}
        /\ frame'[th].pc \in {"set_next", "reset_count"} <=> frame[th].pc \in {"set_active", "set_next"}
    BY <2>2
  <2>4. frame'[th].id = k => FrameCounts(th)'
    BY <1>4, <2>2, <2>3 DEF FrameCounts
  <2>5. Present(db, k) => fails[k] <= db[k].retry_count + crashes
    BY <1>3, <1>4, <2>3 DEF RowCounts
  <2>6. /\ crashes = 0 /\ Present(db, k) /\ frame'[th].pc \notin Unsettled
             => fails[k] = db[k].retry_count
    BY <1>3, <1>4, <2>3 DEF RowCounts, Unsettled
  <2>7. RowCounts(k)'
    BY <1>1, <1>2, <1>5, <1>6, <1>8, <2>1, <2>2, <2>3, <2>5, <2>6
       DEF RowCounts, SameCount, Present, JobStatus
  <2> QED
    BY <2>4, <2>7, CountsAfter
<1>10. CASE ResetCount(th)
  <2>1. /\ frame[th].pc = "reset_count" /\ db' = UpdateRetryCount(db, k, 0)
        /\ frame'[th].pc = "reschedule"
    BY <1>1, <1>10 DEF ResetCount, Write, Frame
  <2>2. /\ db'[k].status = db[k].status
        /\ db'[k].retry_count = IF Present(db, k) THEN 0 ELSE db[k].retry_count
    BY <1>1, <2>1 DEF UpdateRetryCount, Row
  <2>3. FrameCounts(th)'
    BY <2>1 DEF FrameCounts
  <2>4. fails[k] = 0
    BY <1>4, <2>1 DEF FrameCounts
  <2>5. RowCounts(k)'
    BY <1>1, <1>2, <1>5, <1>6, <1>8, <2>1, <2>2, <2>4 DEF RowCounts, Present
  <2> QED
    BY <2>3, <2>5, CountsAfter
<1>11. CASE CountRetry(th)
  <2>1. /\ frame[th].pc = "count_retry"
        /\ db' = UpdateRetryCount(db, k, frame[th].count + 1)
        /\ frame'[th].pc = "set_retry_next"
    BY <1>1, <1>11 DEF CountRetry, Write, Frame
  <2>2. /\ db'[k].status = db[k].status
        /\ db'[k].retry_count = IF Present(db, k) THEN frame[th].count + 1
                                ELSE db[k].retry_count
    BY <1>1, <2>1 DEF UpdateRetryCount, Row
  <2>3. FrameCounts(th)'
    BY <2>1 DEF FrameCounts
  <2>4. /\ frame[th].count + 1 <= MaxRetries[k]
        /\ fails[k] <= frame[th].count + 1 + crashes
        /\ crashes = 0 /\ Present(db, k) => fails[k] = frame[th].count + 1
    BY <1>4, <2>1 DEF FrameCounts
  <2>5. RowCounts(k)'
    BY <1>1, <1>2, <1>5, <1>6, <1>8, <2>1, <2>2, <2>4 DEF RowCounts, Present
  <2> QED
    BY <2>3, <2>5, CountsAfter
<1>12. CASE Complete(th) \/ Fail(th)
  <2>1. /\ frame'[th] = NoFrame
        /\ db' = UpdateStatus(db, k, IF Complete(th) THEN "Completed" ELSE "Failed")
        /\ Fail(th) => frame[th].pc = "fail"
    BY <1>1, <1>12 DEF Complete, Fail, WriteAndReturn
  <2>2. /\ db'[k].retry_count = db[k].retry_count
        /\ db'[k].status = IF ~Present(db, k) THEN db[k].status
                           ELSE IF Complete(th) THEN "Completed" ELSE "Failed"
    BY <1>1, <2>1 DEF UpdateStatus, Row
  <2>3. frame'[th].id # k
    BY <1>7, <2>1
  <2>4. ~Live(k)'
    BY <2>2 DEF Live, Present, JobStatus
  <2>5. ~Held(k)'
    <3>1. UNCHANGED <<heap, loop, queue, handler>>
      BY <1>12 DEF Complete, Fail, WriteAndReturn
    <3>2. \A x \in Thread : frame'[x].id # k
      BY <2>3
    <3>3. /\ ~InHeap(k) /\ ~Occurs(k, loop.batch) /\ ~Dispatching(k)
          /\ ~Occurs(k, queue) /\ ~Scheduling(k)
      BY OnlyThere
    <3> QED
      BY <3>1, <3>2, <3>3 DEF Held, InHeap, Occurs, Dispatching, OnThread, Scheduling
  <2>6. Fail(th) /\ Present(db, k) => k \in Unparsable \/ db[k].retry_count >= MaxRetries[k]
    BY <1>4, <2>1 DEF FrameCounts
  <2>7. RowCounts(k)'
    BY <1>1, <1>2, <1>6, <1>8, <1>12, <2>2, <2>4, <2>5, <2>6 DEF RowCounts, InPlay, Present
  <2> QED
    BY <2>3, <2>7, CountsAfter
<1> QED
  BY <1>9, <1>10, <1>11, <1>12 DEF ExecuteStep

-----------------------------------------------------------------------------
(* Every job through every step.                                           *)

\* A step of execute, or an answer of the runner.
LEMMA ExecuteCounts ==
  ASSUME TypeOK, HTypeOK, PlaceInv, \A k \in Job : Counts(k), HNext,
         NEW th \in Thread, ExecuteStep(th) \/ RunnerReturns(th), NEW k \in Job
  PROVE  Counts(k)'
<1> DEFINE j == frame[th].id
<1>1. /\ j \in Job /\ frame \in [Thread -> Frame] /\ crashes' = crashes
      /\ \A x \in Thread : x # th => frame'[x] = frame[x]
  BY ExecuteMoves DEF TypeOK
<1>2. frame'[th].id = k => k = j
  <2>1. PICK f \in Frame : frame' = [frame EXCEPT ![th] = f] /\ (f.id = j \/ f = NoFrame)
    BY ExecuteMoves
  <2> QED
    BY <1>1, <2>1, SystemAssumption DEF NoFrame, SystemAssumption
<1>3. Held(k)' => Held(k)
  BY ExecutePlaces DEF NoneTakenUp
<1>4. ExecuteStep(th) => fails'[k] = fails[k] /\ wins'[k] = wins[k]
  BY StepKeepsCounters
<1> HIDE DEF j
<1>5. CASE k = j
  <2>1. \A x \in Thread : frame'[x].id = k => x = th
    BY <1>1, <1>5, OnlyThere DEF j
  <2>2. frame[th].id = k
    BY <1>5 DEF j
  <2>3. CASE RunnerReturns(th)
    BY <1>1, <1>3, <2>1, <2>2, <2>3, AfterRun
  <2>4. CASE Reread(th) \/ RunStart(th) \/ Repause(th) \/ Reschedule(th)
    <3>1. ExecuteStep(th)
      BY <2>4 DEF ExecuteStep
    <3> QED
      BY <1>1, <1>3, <1>4, <2>1, <2>2, <2>4, <3>1, BeforeRun
  <2>5. CASE ExecuteStep(th) /\ ~(Reread(th) \/ RunStart(th) \/ Repause(th) \/ Reschedule(th))
    BY <1>1, <1>3, <1>4, <2>1, <2>2, <2>5, WritesResult
  <2> QED
    BY <2>3, <2>4, <2>5
<1>6. CASE k # j
  <2>1. fails'[k] = fails[k] /\ wins'[k] = wins[k]
    BY <1>1, <1>6, NoAnswer DEF j
  <2>2. SameCount(k)
    BY <1>1, <1>6, ExecuteWrites, TableCounts DEF j
  <2>3. Live(k)' => Live(k)
    BY <1>1, <1>6, ExecuteWrites, WriteLive DEF Live, j
  <2>4. \A x \in Thread : frame[x].id = k \/ frame'[x].id = k => frame'[x] = frame[x]
    BY <1>1, <1>2, <1>6 DEF j
  <2> QED
    BY <1>1, <1>3, <2>1, <2>2, <2>3, <2>4, CountsStay DEF InPlay
<1> QED
  BY <1>5, <1>6

\* A job whose row is there before and after a step, and live after it, was in play.
LEMMA InPlayBefore ==
  ASSUME TypeOK, IdleHasNoJob, [Next]_vars, NEW k \in Job, SameCount(k),
         Held(k)' => Held(k)
  PROVE  InPlay(k)' => InPlay(k)
<1>1. Live(k)' => Present(db', k)
  BY DEF Live, Present, JobStatus
<1>2. Present(db, k) => db[k].status # "unused"
  BY DEF Present, JobStatus
<1>3. Live(k)' => Live(k) \/ Held(k)
  BY <1>1, <1>2, HeldWakes DEF SameCount
<1> QED
  BY <1>3 DEF InPlay

\* A step of the loop thread outside execute.
LEMMA LoopCounts ==
  ASSUME TypeOK, HTypeOK, PlaceInv, \A k \in Job : Counts(k), HNext, LoopStep,
         NEW k \in Job
  PROVE  Counts(k)'
<1>1. frame \in [Thread -> Frame] /\ Loop \in Thread /\ crashes' = crashes /\ [Next]_vars
  BY DEF TypeOK, Thread, HNext, LoopStep, LoopLock, LoopPop, LoopUnlock, LoopSkip,
         LoopExecute, LoopDispatch, LoopAgain, MarkRunning, Submit
<1>2. \A x \in Thread : \/ frame'[x] = frame[x]
                        \/ frame[x].pc = "idle" /\ frame'[x].pc = "reread"
  <2>1. CASE LoopExecute
    BY <1>1, <2>1 DEF LoopExecute, AtEach, ExecuteCall
  <2>2. CASE ~LoopExecute
    BY <2>2 DEF LoopStep, LoopLock, LoopPop, LoopUnlock, LoopSkip, LoopDispatch,
       LoopAgain, MarkRunning, Submit
  <2> QED
    BY <2>1, <2>2
<1>3. SameCount(k)
  <2>1. CASE MarkRunning
    <3>1. /\ loop.id \in Job /\ "Running" \in JobStatus
          /\ db' = UpdateStatus(db, loop.id, "Running")
      BY <2>1 DEF MarkRunning, TypeOK, JobStatus
    <3> QED
      BY <3>1, TableCounts
  <2>2. CASE ~MarkRunning
    <3>1. db' = db
      BY <2>2 DEF LoopStep, LoopLock, LoopPop, LoopUnlock, LoopSkip, LoopExecute,
         LoopDispatch, LoopAgain, Submit
    <3> QED
      BY <3>1, TableCounts
  <2> QED
    BY <2>1, <2>2
<1>4. fails'[k] = fails[k] /\ wins'[k] = wins[k]
  BY <1>2, NoAnswer
<1>5. Held(k)' => Held(k)
  BY LoopPlaces DEF NoneTakenUp
<1>6. InPlay(k)' => InPlay(k)
  BY <1>1, <1>3, <1>5, InPlayBefore DEF PlaceInv
<1>7. \A x \in Thread : frame[x].pc \in Unsettled => frame'[x] = frame[x]
  BY <1>2 DEF Unsettled
<1> QED
  BY <1>1, <1>2, <1>3, <1>4, <1>5, <1>6, <1>7, CountsStay

\* A worker that takes a call.
LEMMA WorkerCounts ==
  ASSUME TypeOK, HTypeOK, PlaceInv, \A k \in Job : Counts(k), HNext,
         NEW w \in Worker, WorkerTake(w), NEW k \in Job
  PROVE  Counts(k)'
<1>1. /\ frame \in [Thread -> Frame] /\ w \in Thread /\ crashes' = crashes /\ db' = db
      /\ [Next]_vars
  BY DEF TypeOK, Thread, HNext, WorkerTake
<1>2. \A x \in Thread : \/ frame'[x] = frame[x]
                        \/ frame[x].pc = "idle" /\ frame'[x].pc = "reread"
  BY <1>1 DEF WorkerTake, ExecuteCall
<1>3. SameCount(k)
  BY <1>1, TableCounts
<1>4. fails'[k] = fails[k] /\ wins'[k] = wins[k]
  BY <1>2, NoAnswer
<1>5. Held(k)' => Held(k)
  BY WorkerPlaces DEF NoneTakenUp
<1>6. InPlay(k)' => InPlay(k)
  BY <1>1, <1>3, <1>5, InPlayBefore DEF PlaceInv
<1>7. \A x \in Thread : frame[x].pc \in Unsettled => frame'[x] = frame[x]
  BY <1>2 DEF Unsettled
<1> QED
  BY <1>1, <1>2, <1>3, <1>4, <1>5, <1>6, <1>7, CountsStay

\* A handler: a job that create_job saves starts its counts; the others keep theirs.
LEMMA HandlerCounts ==
  ASSUME "resume" \notin Ops, TypeOK, HTypeOK, PlaceInv, \A k \in Job : Counts(k), HNext,
         NEW c \in Client, HandlerBegin(c) \/ HandlerStep(c), NEW k \in Job
  PROVE  Counts(k)'
<1>1. frame' = frame /\ crashes' = crashes /\ [Next]_vars
  BY DEF HNext, HandlerBegin, HandlerStep, CreateSave, PauseFind, ResumeFind, DeleteFind,
         CallSchedule, PauseWrite, ResumeWrite, DeleteRemove
<1>2. fails'[k] = fails[k] /\ wins'[k] = wins[k]
  BY <1>1, NoAnswer
<1>3. Held(k)' => Held(k) \/ db[k].status = "unused"
  BY HandlerPlaces DEF OnlyNewTakenUp
<1>4. ASSUME SameCount(k), db[k].status # "unused" PROVE Counts(k)'
  <2>1. InPlay(k)' => InPlay(k)
    BY <1>1, <1>3, <1>4, InPlayBefore DEF PlaceInv
  <2> QED
    BY <1>1, <1>2, <1>3, <1>4, <2>1, CountsStay
<1>5. ASSUME db[k].status = "unused",
             db'[k] = db[k] \/ (db'[k].status = "Active" /\ db'[k].retry_count = 0)
      PROVE  Counts(k)'
  <2>1. \A x \in Thread : frame[x].id # k
    BY <1>5 DEF PlaceInv, EndedIsUnheld, Held, OnThread
  <2>2. db[k].retry_count \in Nat /\ crashes \in Nat
    <3>1. db[k] \in Row
      BY DEF TypeOK
    <3> QED
      BY <3>1, SystemAssumption DEF TypeOK, Row, SystemAssumption
  <2>3. /\ fails[k] = 0 /\ wins[k] = 0 /\ db[k].retry_count <= Budget(k)
        /\ Budget(k) \in Nat /\ Budget(k)' = Budget(k)
    BY <1>5, BudgetBounds DEF Counts, RowCounts, Budget
  <2>4. Present(db', k) => db'[k].retry_count = 0
    BY <1>5 DEF Present, JobStatus
  <2>5. RowCounts(k)'
    BY <1>1, <1>2, <1>5, <2>2, <2>3, <2>4 DEF RowCounts, Present
  <2> QED
    BY <1>1, <2>1, <2>5 DEF Counts
<1>6. ASSUME NEW j \in Job, CreateSave(c, j) PROVE Counts(k)'
  <2>1. PICK n \in Time : db' = Save(db, j, n) /\ db[j].status = "unused"
    BY <1>6, NextRunsTypes DEF CreateSave, TypeOK
  <2>2. CASE k = j
    <3>1. db'[k].status = "Active" /\ db'[k].retry_count = 0
      BY <2>1, <2>2 DEF Save, TypeOK
    <3> QED
      BY <1>5, <2>1, <2>2, <3>1
  <2>3. CASE k # j
    <3>1. SameCount(k) /\ db'[k] = db[k]
      BY <2>1, <2>3, TableCounts DEF Save, TypeOK
    <3> QED
      BY <1>4, <1>5, <3>1
  <2> QED
    BY <2>2, <2>3
<1>7. CASE db' = db
  BY <1>4, <1>5, <1>7, TableCounts
<1>8. CASE PauseWrite(c) \/ DeleteRemove(c)
  <2>1. /\ handler[c].id \in Job
        /\ \/ db' = UpdateStatus(db, handler[c].id, "Paused")
           \/ db' = Remove(db, handler[c].id)
    BY <1>8 DEF PauseWrite, DeleteRemove, TypeOK
  <2>2. SameCount(k)
    BY <2>1, TableCounts DEF JobStatus
  <2>3. db[k].status = "unused" => db'[k] = db[k]
    BY <2>1 DEF UpdateStatus, Remove, Present, JobStatus, TypeOK
  <2> QED
    BY <1>4, <1>5, <2>2, <2>3
<1>9. ~ResumeWrite(c)
  BY DEF ResumeWrite, PlaceInv, IdleHasNoJob
<1> QED
  BY <1>6, <1>7, <1>8, <1>9
     DEF HandlerBegin, HandlerStep, PauseFind, ResumeFind, DeleteFind, CallSchedule

\* A crash forgets at most one run of a job; a restart that follows no crash finds
\* no job.
LEMMA ProcessCounts ==
  ASSUME TypeOK, HTypeOK, PlaceInv, CountInv, HNext, Tick \/ Boot \/ Crash, NEW k \in Job
  PROVE  Counts(k)'
<1>1. /\ \A th \in Thread : frame[th] \in Frame
      /\ db[k].retry_count \in Nat /\ fails[k] \in Nat /\ wins[k] \in Nat
      /\ crashes \in Nat /\ frame \in [Thread -> Frame]
  <2>1. db[k] \in Row
    BY DEF TypeOK
  <2> QED
    BY <2>1, SystemAssumption DEF TypeOK, HTypeOK, Row, SystemAssumption
<1>2. Budget(k) \in Nat /\ MaxRetries[k] \in Int /\ Budget(k)' = Budget(k)
  BY BudgetBounds DEF Budget
<1>3. db' = db /\ Counts(k) /\ SameCount(k)
  <2>1. db' = db
    BY DEF Tick, Boot, Crash
  <2> QED
    BY <2>1, TableCounts DEF CountInv
<1>4. \A x \in Thread : frame'[x] = frame[x] \/ frame'[x].pc = "idle"
  BY DEF Tick, Boot, Crash, NoFrame
<1>5. fails'[k] = fails[k] /\ wins'[k] = wins[k]
  BY <1>4, NoAnswer
<1>6. Live(k)' <=> Live(k)
  BY <1>3 DEF Live
<1>7. CASE Tick
  <2>1. frame' = frame /\ crashes' = crashes
    BY <1>7 DEF Tick
  <2>2. Held(k)' => Held(k)
    BY <1>7, ProcessPlaces DEF Tick, Boot
  <2> QED
    BY <1>3, <1>5, <1>6, <2>1, <2>2, CountsStay DEF InPlay
<1>8. CASE Boot
  <2>1. frame' = frame /\ crashes' = crashes /\ \A x \in Thread : frame[x].id # k
    BY <1>8, SystemAssumption
       DEF Boot, PlaceInv, DownIsEmpty, IdleHasNoJob, SystemAssumption
  <2>2. Held(k)' => Held(k) \/ Live(k)
    BY <1>8, ProcessPlaces DEF Reloaded, Live
  <2>3. crashes = 0 => db[k].status = "unused"
    BY <1>8 DEF CountInv, NotStarted, Boot
  <2>4. \A pcs : ~At(k, pcs) /\ ~At(k, pcs)'
    BY <2>1 DEF At
  <2> HIDE DEF Held
  <2>5. InPlay(k)' => InPlay(k)
    BY <1>6, <2>2 DEF InPlay
  <2>6. crashes = 0 => ~Present(db, k)
    BY <2>3 DEF Present, JobStatus
  <2>7. RowCounts(k)'
    BY <1>1, <1>2, <1>3, <1>5, <2>1, <2>4, <2>5, <2>6 DEF Counts, RowCounts
  <2> QED
    BY <2>1, <2>7 DEF Counts
<1>9. CASE Crash
  <2>1. crashes' = crashes + 1 /\ \A x \in Thread : frame'[x].id # k
    BY <1>9, SystemAssumption DEF Crash, NoFrame, SystemAssumption
  <2>2. ~Held(k)'
    BY <1>9, ProcessPlaces
  <2>3. InPlay(k)' => InPlay(k)
    BY <1>6, <2>2 DEF InPlay
  <2>4. InPlay(k) /\ Present(db, k) => fails[k] <= db[k].retry_count + 1 + crashes
    <3>1. CASE At(k, {"count_retry", "fail"})
      <4>1. PICK th \in Thread : frame[th].id = k /\ frame[th].pc \in {"count_retry", "fail"}
        BY <3>1 DEF At
      <4> QED
        BY <1>3, <4>1 DEF Counts, FrameCounts
    <3>2. CASE ~At(k, {"count_retry", "fail"})
      BY <1>1, <1>3, <3>2 DEF Counts, RowCounts
    <3> QED
      BY <3>1, <3>2
  <2>5. RowCounts(k) /\ crashes + 1 # 0
    BY <1>1, <1>3 DEF Counts
  <2> HIDE DEF At, InPlay, Held
  <2>6. RowCounts(k)'
    BY <1>1, <1>2, <1>3, <1>5, <2>1, <2>2, <2>3, <2>4, <2>5 DEF RowCounts
  <2> QED
    BY <2>1, <2>6 DEF Counts
<1> QED
  BY <1>7, <1>8, <1>9

LEMMA InitCounts == HInit => CountInv
<1> SUFFICES ASSUME HInit PROVE CountInv
  OBVIOUS
<1>1. /\ \A j \in Job : fails[j] = 0 /\ wins[j] = 0 /\ db[j].status = "unused"
                        /\ db[j].retry_count = 0
      /\ \A th \in Thread : frame[th].id = NoJob
      /\ crashes = 0
  BY DEF HInit, Init, Vacant, NoFrame
<1>2. HTypeOK /\ NotStarted
  BY <1>1 DEF HInit, HTypeOK, NotStarted
<1>3. ASSUME NEW k \in Job PROVE Counts(k)
  <2>1. Budget(k) \in Nat
    BY BudgetBounds
  <2>2. ~InPlay(k) \/ ~Present(db, k)
    BY <1>1 DEF Present, JobStatus
  <2>3. \A th \in Thread : frame[th].id # k
    BY <1>1, SystemAssumption DEF SystemAssumption
  <2>4. RowCounts(k)
    BY <1>1, <2>1, <2>2 DEF RowCounts
  <2> QED
    BY <2>3, <2>4 DEF Counts
<1> QED
  BY <1>2, <1>3 DEF CountInv

\* The watched system is the system.
LEMMA HistoryWatches == HSpec => Spec
<1>1. HInit => Init
  BY DEF HInit
<1>2. [HNext]_hvars => [Next]_vars
  BY DEF HNext, hvars
<1> QED
  BY <1>1, <1>2, PTL DEF HSpec, Spec

\* The process is up after every step of a thread or of a handler.
LEMMA StartedStays ==
  ASSUME "resume" \notin Ops, TypeOK, PlaceInv, NotStarted, [Next]_vars
  PROVE  NotStarted'
<1>1. CASE UNCHANGED vars \/ Tick
  BY <1>1 DEF vars, Tick, NotStarted
<1>2. CASE Boot
  BY <1>2 DEF Boot, NotStarted
<1>3. CASE Crash
  <2>1. crashes' = crashes + 1 /\ crashes \in Nat
    BY <1>3, SystemAssumption DEF Crash, TypeOK, SystemAssumption
  <2> QED
    BY <2>1 DEF NotStarted
<1>4. CASE ~(UNCHANGED vars \/ Tick \/ Boot \/ Crash)
  <2>1. up'
    BY <1>4, LoopPlaces, WorkerPlaces, ExecutePlaces, HandlerPlaces DEF Next
  <2> QED
    BY <2>1 DEF NotStarted
<1> QED
  BY <1>1, <1>2, <1>3, <1>4

LEMMA CountsInvariant ==
  ASSUME "resume" \notin Ops
  PROVE  HSpec => []CountInv
<1>1. TypeOK /\ PlaceInv /\ CountInv /\ [HNext]_hvars => CountInv'
  <2> SUFFICES ASSUME TypeOK, PlaceInv, CountInv, [HNext]_hvars PROVE CountInv'
    OBVIOUS
  <2>1. CASE UNCHANGED hvars
    <3>1. UNCHANGED <<db, up, heap, loop, queue, frame, handler, crashes, fails, wins>>
      BY <2>1 DEF hvars, vars
    <3>2. \A k \in Job : Held(k)' <=> Held(k)
      BY <3>1 DEF Held, InHeap, Occurs, Dispatching, OnThread, Scheduling
    <3>3. \A k \in Job : Live(k)' <=> Live(k)
      BY <3>1 DEF Live
    <3>4. ASSUME NEW k \in Job PROVE Counts(k)'
      <4>1. SameCount(k) /\ InPlay(k)' = InPlay(k)
        BY <3>1, <3>2, <3>3, TableCounts DEF InPlay
      <4> QED
        BY <3>1, <3>2, <4>1, CountsStay DEF CountInv
    <3> QED
      BY <3>1, <3>4 DEF CountInv, HTypeOK, NotStarted
  <2>2. CASE HNext
    <3>1. HTypeOK' /\ NotStarted'
      BY <2>2, HistoryTypes, StartedStays DEF CountInv, HNext
    <3>2. ASSUME NEW k \in Job PROVE Counts(k)'
      BY <2>2, ProcessCounts, LoopCounts, WorkerCounts, ExecuteCounts, HandlerCounts
         DEF CountInv, HNext, Next
    <3> QED
      BY <3>1, <3>2 DEF CountInv
  <2> QED
    BY <2>1, <2>2
<1> QED
  BY <1>1, InitCounts, HistoryWatches, TypeCorrect, PlacesInvariant, PTL DEF HSpec

-----------------------------------------------------------------------------
(***************************************************************************)
(* As long as nobody calls resume_job, the retry policy is a budget: since *)
(* its last success a job has failed at most max_retries times and once    *)
(* more, and once more for each crash, whatever the interleaving.          *)
(***************************************************************************)
THEOREM RetriesAreBounded ==
  ASSUME "resume" \notin Ops
  PROVE  HSpec => []RetryBudget
<1>1. CountInv => RetryBudget
  BY DEF CountInv, Counts, RowCounts, RetryBudget, Budget
<1> QED
  BY <1>1, CountsInvariant, PTL

(***************************************************************************)
(* As long as nobody calls resume_job and nothing crashes, retry_count in  *)
(* the row of a job that waits in the heap is the number of failed runs    *)
(* since its last success.                                                 *)
(***************************************************************************)
THEOREM RetriesAreCounted ==
  ASSUME "resume" \notin Ops
  PROVE  HSpec => []RetryCountIsExact
<1>1. PlaceInv /\ CountInv => RetryCountIsExact
  <2> SUFFICES ASSUME PlaceInv, CountInv, NEW j \in Job,
                      crashes = 0, InHeap(j), Present(db, j)
               PROVE  db[j].retry_count = fails[j]
    BY DEF RetryCountIsExact
  <2>1. Held(j) /\ \A pcs : ~At(j, pcs)
    BY DEF Held, PlaceInv, Apart, At, OnThread
  <2> QED
    BY <2>1 DEF CountInv, Counts, RowCounts
<1> QED
  BY <1>1, CountsInvariant, PlacesInvariant, HistoryWatches, PTL

(***************************************************************************)
(* As long as nobody calls resume_job, a one_time job succeeds once, and   *)
(* once more for each crash at most.                                       *)
(***************************************************************************)
THEOREM OneTimeSucceedsOnce ==
  ASSUME "resume" \notin Ops
  PROVE  HSpec => []OneTimeOnce
<1>1. CountInv => OneTimeOnce
  BY DEF CountInv, Counts, RowCounts, OneTimeOnce
<1> QED
  BY <1>1, CountsInvariant, PTL

(***************************************************************************)
(* As long as nobody calls resume_job, a job is given up only when its     *)
(* retries are used up or its stored schedule is bad, on the loop thread   *)
(* or on the pool.                                                         *)
(***************************************************************************)
THEOREM FailedIsExhaustedOnPool ==
  ASSUME "resume" \notin Ops
  PROVE  HSpec => []FailedMeansExhausted
<1>1. CountInv => FailedMeansExhausted
  BY DEF CountInv, Counts, RowCounts, FailedMeansExhausted
<1> QED
  BY <1>1, CountsInvariant, PTL

=============================================================================

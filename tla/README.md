# A TLA+ model of the job scheduler

The repository is a job scheduler in C++: clients create, pause, resume and delete jobs over
HTTP; a scheduler thread keeps the next run times in a heap and hands due jobs to an executor,
which runs a shell command, retries it when it fails and stores the outcome in SQLite. This
directory holds TLA+ modules of its components, TLC configurations that check them on small
instances, and TLAPS proofs of what matters most for every instance.

Paths below are relative to `src/Implementation/src` (sources) and
`src/Implementation/include/job_scheduler` (headers). `db/*.cpp`, `tests/`, and the two build
trees hold nothing of the program's own; `third_party/sqlite3` is vendored.

## 1. What the code is, and how it is read

The code is a work in progress: the CMake target builds `main.cpp`, the models and the
repository, and the scheduler, executor, service and HTTP files do not yet compile together.
Where two files disagree the model takes what the callers need:

| The code says | Taken as |
|---|---|
| callers use `find_by_id`, `find_all`, `save`; `IJobReader`/`IJobWriter` declare `getById`, `listAll`, `create` | the same operations under two names |
| callers use `update_status`, `update_next_run`, `update_retry_count`; nothing defines them | an SQL `UPDATE ... WHERE id=?` of one column, atomic, without effect if there is no such row (marked external in the map) |
| `Executor.cpp` calls `scheduler_.reschedule`; nothing defines it | what `schedule` and `resume` both do: push an entry and notify |
| `Scheduler.cpp:99` calls `executor_.execute(job)` on its own thread; `Executor.hpp` makes `execute` private, offers `dispatch`, and `Scheduler.hpp` declares a `DueCallback` | both, by the constant `Pooled`: FALSE is the call as written, TRUE puts `dispatch` in its place, the hand-over to the pool the headers prepare; nothing in the source makes that call or calls `on_due_` yet |
| `Executor::execute` declares `job` again at line 30 | the row it has just read |
| schedules define `nextRunAfter`, callers use `next_run` | the same operation |
| `ScheduleParser::parse_interval` passes `std::chrono::seconds` to `IntervalSchedule(int)` | its count, converted to `int` |
| `JobController` and `JobService` use `schedule_type`, `schedule_expr`; the repository writes `schedule->type()`, `schedule->serialize()` and rebuilds `schedule` | a row read back has in `schedule_type` and `schedule_expr` what the two columns hold |
| `ScheduleParser.hpp` and `ScheduleParser.cpp` are the same text | one parser |
| `OneTimeSchedule::type()` is `"onetime"`, `ScheduleParser` accepts `"one_time"` | as written in `ScheduleText`, where the run `stored_illegal` finds it; in `JobSystem` a stored job may be unparsable (constant `Unparsable`). Instances in which a one_time job is not in `Unparsable` (`inline`, `no_resume`) show what holds of one_time jobs once the two names agree; in the code as it is each of them fails at its first run |
| `Scheduler.hpp:23` loads "all active/paused jobs", `Scheduler.cpp:20` says "Paused jobs are NOT added" | the code: active and running rows |
| nothing writes `Cancelled` | a status that is read and never written |

## 2. Inventory

| Component | State | Operations | Interacts through |
|---|---|---|---|
| `JobService` | none | create, pause, resume, delete, list, get | repository calls, then a scheduler call |
| `Scheduler` | `heap_`, `running_`, `mutex_`, `cv_`, its thread | load, schedule, cancel, pause, resume, start, stop, loop | reads rows, calls the executor |
| `Executor` | none | dispatch, execute | pool, runner, repository, `reschedule` |
| `ThreadPool` | `queue_`, `stop_`, `mutex_`, `cv_`, workers | submit, worker_loop, destructor | tasks |
| `SqliteJobRepository` | the `jobs` table | create, update, remove, getById, listAll, listDue | SQLite |
| `ISchedule` and its three classes, `ScheduleParser` | none | nextRunAfter, type, serialize, parse | called by service, executor, repository |
| `ShellJobRunner` | none | run | `std::system` |
| `JobController` | none | the six routes: read the body, call the service, choose the code | `JsonUtil`, `JobService` |
| `JsonUtil` | none | escape, kv, obj, get_str, get_int | text |
| `HttpServer` | an httplib server and its thread | start, stop | httplib |

Hard behaviours, and the properties that say they come out right:

- *A job lives in several places.* A row says a job is active; what makes it run is a heap
  entry, an id in `due_ids`, a queued call, a call of `execute`, or a handler that is about to
  push it. Handlers, the loop and the workers move it between them without a common lock.
  `NoLostJob`, `OnePlace`, `HeapAgreesWithTable`, `DueJobRuns`, and, for all of it at once, the
  refinement `ImplementsJobLife`.
- *Reads that are old when used.* `execute` re-reads its row and then runs a command of any
  length; pause, resume and delete land meanwhile. `DeletedStaysDeleted`, `TerminalIsFinal`,
  and the findings `PauseSticks` and `OnlyPauseJobPauses`.
- *Updates of several statements, and crashes between them.* `RetryBudget`,
  `RetryCountIsExact`, `FailedMeansExhausted`, `OneTimeOnce`, `RunsWhenDue`.
- *A check that is old when the write comes.* `pause_job` refuses a job that has ended, and writes
  Paused when it may have ended since: the finding `NoFurtherAttempts`.
- *Two copies of a time.* The heap keeps the exact time, the table whole seconds.
  `HeapAgreesWithTable`, `RunsWhenDue`.
- *Condition variables notified without the lock.* That nobody sleeps who should not:
  `EveryTaskHasAWakeup`, `SleepsUntilTheTop`, `OnlyLateMissTheStop`, `OnlyLateMissesTheStop`; that
  what waits is then served: `ImplementsFairTaskQueue`, `DueIsFired`, `DestructorReturnsUnlessLate`,
  `StopReturnsUnlessLate`; and the finding `StopReturns`. (The two of `SchedulerThread` that wait for
  a hand-over assume that it returns.)
- *Shutdown with work left.* `DrainedWhenDestroyed`, `PoppedIsFired`.
- *A loop that must not be blocked by a command.* `LoopReturnsToHeap`.
- *Text read without a grammar.* `get_str` and `get_int` look for a quoted key anywhere in a body.
  `ReadsUnambiguousObjects`, `ReplyIsARequest`.
- *Schedules that change on their way* through parser, table and parser: other type names, other
  widths of integers. `RebuiltFromRow`, `ReadsNeverFail`, `RunIsLater`, and the finding `StoredIsLegal`.
- *A scan of half a million minutes* in a handler thread, over a buffer that other threads may
  write. `CronRunIsFirstMatch`, `AcceptedIffItRuns`, `EveryRequestIsAnswered`.
- *Ids from a generator without a lock.* `DefinitionIsFinal`.

`PROJECT.json` lists every hazard at its line with its properties.

## 3. Modules

| Module | Models |
|---|---|
| `JobModel` | statuses, time, the answers of `nextRunAfter`, what a job is created with |
| `JobStore` | the table and the repository operations on it |
| `JobSystem` | service, scheduler, executor, pool and crashes, composed |
| `JobProperties` | the properties of `JobSystem` |
| `JobHistory` | `JobSystem` with two history variables that count runs |
| `JobLife` | what the service promises of one job while nobody calls `resume_job` |
| `ThreadPool`, `TaskQueue` | the pool with mutex and condition variable; what it promises |
| `SchedulerThread`, `TimerQueue` | the scheduler's thread, the same way; what it promises |
| `Words`, `JsonText`, `ScheduleText` | text as symbols; `JsonUtil`; the schedules and their text |
| `JobApi`, `ApiProperties` | the REST API over the rows of the table, and what it promises |
| `JobProofs`, `PlaceProofs`, `HistoryProofs`, `LifeProofs` | theorems about `JobSystem`, each on top of the one before, `LifeProofs` on `PlaceProofs` |
| `PoolProofs`, `SchedulerProofs`, `ApiProofs` | theorems about the other components |
| `TextProofs` | theorems about the text of requests and replies, on top of `ApiProofs` |
| `MCJobSystem`, `MCJobHistory`, `MCSchedulerThread`, `MCJobApi` | values of the constants for TLC |

An operator under a comment that begins with "Mutant:" is a faulty variant of the definition
below it. No specification uses it; put in the place of that definition it makes TLC report the
property `PROJECT.json` names, which shows that the property can fail.

### JobSystem

One step is one critical section, one table operation, or one return of the job runner. What
lies between two of these touches only locals of its thread.

| Variable | Code |
|---|---|
| `db` | the table: status, next_run_time and retry_count of each id |
| `heap` | `Scheduler::heap_`, as the number of entries for each id and time |
| `loop` | the locals of `Scheduler::loop`: where it is, `now`, `due_ids` |
| `queue` | `ThreadPool::queue_`: ids whose `execute` is pending |
| `frame[th]` | the call of `Executor::execute` thread `th` is in, with the locals it uses later |
| `handler[c]` | the call of `JobService` handler thread `c` is in |
| `up`, `crashes`, `calls`, `now` | the process, the bounds' counters, the clock |

`Crash` erases everything but `db`; `Boot` is `load_from_repository` followed by `start`.
`LoopLock`, `LoopPop`, `LoopUnlock`, `LoopSkip`, `LoopExecute` or `LoopDispatch`, `MarkRunning`,
`Submit` are the loop; `WorkerTake` a worker; `Reread` to `Reschedule` are `execute`, a table
write each; `CreateSave` ... `DeleteRemove` are the handlers, cut between the read, the write
and the scheduler call. A request that fails its checks changes nothing and is no action. An entry of the
heap that two threads pushed is two entries. A schedule is its next run: exact for `one_time`
and `interval`; for `cron`, any later tick within the horizon or none.

A time is a number of clock ticks, `Second` of them to a second. `ToTimeT` is the conversion
with which the repository stores a time, so a row may hold an earlier time than the heap entry.

### JobLife

The abstract specification of `JobSystem`. It has the clock, the table (`row`, refined by `db`) and
for each job one of seven stages: `out` (the process holds nothing of it), `waiting`, `running`, `won`,
`renewing`, `lost`, `retrying`. There are no threads, no heap and no queue in it; the stage is a
function of where the job is in `JobSystem` (`StageOf`). A heap entry, an id in `due_ids`, a queued call and a call
of `create_job` that has yet to push are all `waiting`, so moving a job between them is a stutter;
inside `execute` the stage follows the point its thread has reached. `JobLife` says when a row may be
marked Running, what must hold for a run to begin, which writes follow a success and a failure and in
which order, that a run time moves forward after a success, and that a waiting job is let go of only if its
row is neither Active nor Running. Clients pause and delete at any moment; a crash puts every job
`out`, and a restart puts back those whose row is live. With `resume_job` the promise is false: pause and resume
before an entry comes up leave a second entry of the job (`Scheduler.cpp:44`), which has no stage of its own.

### ThreadPool and TaskQueue

A worker that holds the mutex and finds the predicate of `cv_.wait` false is in state `block`;
releasing the mutex and joining the waiters is one atomic step, `Block`, as the standard
requires. `submit` needs the mutex and cannot come in between; the destructor does not take it
and can. Spurious wakeups are steps. Nobody calls `submit` after the destructor has begun.
`TaskQueue` is the promise: tasks taken in order, each by one worker, once. `ThreadPool`
implements it with the same `queue`, `held` and `done`.

### SchedulerThread and TimerQueue

The same treatment of `Scheduler::loop`, `stop` and restart. Other threads take and release the mutex
in one step, so only the loop holds it between steps, in the states `Inside`. `TimerQueue` is
the promise: an entry is handed over once, not before its time, the earlier before the later.
The refinement mapping takes `pending` to `heap` and `taken` to `batch` (`due_ids`). What the
loop does with a popped entry is `JobSystem`; here it is the step `Fire`, which is no part of `LoopStep` because the
specification owes nobody its end: the command runs on this thread.

### JobApi and the modules of text

`JobSystem` takes a job's schedule as given and keeps of a row what operations change. `JobApi`
is the other half: it follows a request from its text to the row and back, and leaves to
`JobSystem` what happens to the job afterwards. `ExecutorWrites` stands for it: any of the writes of `dispatch`
and `execute`, in any order, to the status, the retry count and the run time of any row, the run time being one that the
row's schedule answers now or a retry's.

Text is a sequence of symbols: a punctuation character, a control character, or a word.
`Number` gives the integer each numeral begins with, so `stoi`, `stoll` and the cut to `int`
(`IntMax`) do what they do. No numeral is one of the `Punctuation` symbols. Blanks, which every parser
skips, are left out. An object is a sequence of `Member`s, a key with a text or a numeral; a key that
occurs twice means its first value. Time is counted in minutes, the step of the scan.

| Variable | Code |
|---|---|
| `table` | the `jobs` table with its columns, those of a definition and those `execute` updates |
| `call[c]` | the request handler thread `c` is in, with the locals of `create_job` and of the scan |
| `tm[c]` | the minute in the buffer `std::localtime` gives thread `c`; `SharedTm` says if it is one for all |
| `now`, `calls` | the clock, the bound's counter |

`Post` reads the body (`JsonText`), `Refuse`, `PlanRun` or `StartScan` is `create_job` up to its
next run, `LocalTime` and `CompareHit` or `CompareMiss` are one candidate of
`CronSchedule::nextRunAfter`, `Save` draws an id and inserts the row: any id, since the generator
is unsynchronised, and `exec` throws on one that is taken. `RouteById` is the read of the other
routes, `WriteStatus` and `RemoveRow` their write. An exception that leaves a handler is answered
with 500 by httplib, which is taken from outside the repository.

## 4. Runs

| Run | Shows | Instance |
|---|---|---|
| `inline` | `TypeOK`, `NoLostJob`, `FailedMeansExhausted`, `DueJobRuns` with `execute` on the loop thread | a cron and a one_time job, 1 client, 4 calls, 1 crash |
| `pool` | `NoLostJob`, `DeletedStaysDeleted`, `DueEntryRuns`, `LoopReturnsToHeap` with `dispatch` | an interval job and an unparsable one, 2 workers, 2 clients, 3 calls, 1 crash, 2 ticks to the second |
| `no_resume` | what holds while nobody calls `resume_job`: `OnePlace`, `HeapAgreesWithTable`, `RunsWhenDue`, `RetryBudget`, `RetryCountIsExact`, `OneTimeOnce`, `TerminalIsFinal`, and the refinement `ImplementsJobLife` | 2 workers, 1 client, 4 calls, 1 crash, 2 ticks to the second |
| `thread_pool` | the pool implements the task queue, with its fairness; `EveryTaskHasAWakeup`; drained; that nothing but a worker that went to wait late and stays there can make the destructor hang, if tasks end | 2 workers, 2 callers, 3 tasks |
| `scheduler_thread` | the thread implements the timer queue; `SleepsUntilTheTop`; and, if hand-overs return, due entries fire, and nothing but a loop that went to wait late and stays there can make `stop` hang | 3 entries, 2 starts |
| `requests` | the ten properties of `ApiProperties` | 2 handler threads, 2 requests out of 21 objects, 2 ids, ints of 4 bits, an hour of 2 minutes, a horizon of 3 |
| `pause_undone`, `restore_pauses`, `loop_blocked`, `stop_hangs`, `stored_illegal` | findings of section 6 | as above |
| `attempt_after_failed` | a finding of section 6 | an interval job with one retry, `execute` on the loop thread, 1 client, 3 calls, no crash; the one_time job beside it is unparsable |

Why the bounds suffice. Every race in this code is between two threads over one job: one run and
one handler, or two runs. Two jobs are needed for the heap's order and for one job's run to
delay another's; two workers for two runs at once; four calls for create, pause, resume and one
more, on the same job. The clock runs far enough for a job to be created, run, fail, be retried
and run again. One crash may come between any two steps; what a second one could find is a
table the first could have left. `MaxRetries` is 1, 0 and -1 (the request's value is not
checked), so a retry is used, refused at once, and refused below zero. In the thread modules,
two waiting workers are needed for a `notify_one` to choose, three tasks for one to wait while
both are busy; two entries with one time and a later one give every order of pushes, and two starts a restart.

In `requests` the objects hold one schedule of each type that is accepted and one for each reason
to refuse it: a time that has passed and one that has not, a period of zero and one that does not
fit an `int`, cron expressions with four fields, with six, with -1, with a word, and with no match
in the horizon; an empty name, an empty target; members in another order, a key that occurs twice,
strings to be escaped, strings that pose as keys, integers where strings belong. Two requests are enough for two creates with one id, for
two scans at once, and for a create and any other route; the theorems of section 5 do not bound
their number. The horizon of 3 over hours of 2 minutes lets a scan end at its first, at its last and after
its last candidate.

Deadlock checking is off: the clock, calls, crashes, tasks and entries are bounded, so every
instance comes to rest, and a scheduler that has stopped or a pool that is destroyed is meant to.
What must not come to rest is stated as a liveness property.

Fairness. Weak fairness of the loop, of each worker, of each call of `execute` and of each
handler call that has begun: the operating system runs every thread that can run. The clock,
requests, crashes, restarts and spurious wakeups owe nothing in `JobSystem`. That a command
ends is not promised by `std::system`; it is the hypothesis `CommandsTerminate` of `DueJobRuns`,
and `LoopReturnsToHeap` does without it. In `ThreadPool` the mutex is not fair: only that some worker
that wants it gets it. In `SchedulerThread` the clock advances, as a timed wait relies on; that a
hand-over (`Fire`) returns is again a hypothesis, `HandOversReturn`, of `PoppedIsFired`, `DueIsFired`, `StopReturns` and
`StopReturnsUnlessLate`: `Scheduler.cpp:99` runs the command on the thread that `stop` joins, so a command that
does not end makes `stop` hang too. `ThreadPool` assumes that tasks end (`Finish` is fair): the
destructor joins the workers that run them.
In `JobApi` each handler thread is weakly fair once it has a request.

`DueJobRuns` counts a job as due when its row's time has passed by a full second, because the
heap may hold the time with its fraction. With two overlapping handler calls a resumed job can
be later than that: `resume_job` pushes the time it read before its write, and a run in flight may
have stored an earlier one (`JobService.cpp:149`). So `DueJobRuns` is checked with one client
(`inline`), and with two (`pool`) it is `DueEntryRuns`, which asks also that no entry of the job is
for a later time; with two clients and five calls TLC refutes the first and not the second.

## 5. Theorems

TLAPS proves, for any number of jobs, threads, tasks and entries and any value of the bounds,
from the assumptions the modules state about their constants (times are natural numbers, a
period is positive, identifiers of idle threads are not those of jobs, a pool has finitely many workers
and callers, no numeral is a punctuation symbol, no id that `generate_id` draws is one of the six keys of a request,
and clients send objects of `Member`s):

| Theorem | Says | Argument |
|---|---|---|
| `JobProofs!TypeCorrect` | `TypeOK` | inductive as it stands; it says not only that ids are ids but that a thread in a call is in it for a job, without which the writes of `execute` have no type |
| `JobProofs!NoJobIsLost` | `NoLostJob` | inductive relative to `TypeOK`: every step that takes a job from one place puts it in another or makes it not live, and no step makes a job live that nothing carries; one lemma for each group of steps |
| `JobProofs!DeletedIsFinal` | `DeletedStaysDeleted` | no table operation but `Save` revives a row, and `Save` needs an unused id |
| `JobProofs!FailedIsExhausted` | `FailedMeansExhausted` where `Pooled` is FALSE | from `FailedIInv`: nothing reaches the pool, the loop thread runs no failed job, and the retry count it read is still the row's when it fails one; of all other steps one lemma (`MildWrites`) says that they fail no job and count nothing |
| `PlaceProofs!JobInOnePlace` | `OnePlace` without `resume_job` | from `PlaceInv`, see below |
| `PlaceProofs!HeapIsCopyOfTable`, `NoRunIsEarly` | `HeapAgreesWithTable`, `RunsWhenDue` without `resume_job` | from `TimeInv` |
| `PlaceProofs!EndedJobStaysEnded` | `TerminalIsFinal` without `resume_job` | from `PlaceInv`: what ended is held nowhere, so no thread is left to write its row |
| `HistoryProofs!RetriesAreBounded`, `RetriesAreCounted`, `OneTimeSucceedsOnce` | `RetryBudget`, `RetryCountIsExact`, `OneTimeOnce` without `resume_job` | from `CountInv` |
| `HistoryProofs!FailedIsExhaustedOnPool` | `FailedMeansExhausted` without `resume_job`, also where `Pooled` is TRUE | from `CountInv` |
| `LifeProofs!ServiceLivesAsPromised` | `ImplementsJobLife` without `resume_job`, for either value of `Pooled` | the initial states map to initial states; each step is a step of `JobLife` or a stutter, one lemma for each group of actions, from `PlaceInv`, `TimeInv` and `RunInv` |
| `PoolProofs!PoolTypeCorrect` | `TypeOK`, with who holds the mutex | inductive |
| `PoolProofs!PoolDrained` | `DrainedWhenDestroyed` | from `LeavesEmpty`: a worker leaves only on an empty queue with `stop_` set, after which nobody submits, so it stays empty |
| `PoolProofs!PoolLosesNoWakeup`, `PoolNeverSleepsOnATask` | `EveryTaskHasAWakeup`; and, whether or not a worker sleeps, that the pool is never all asleep with a task in its queue | inductive with `LeavesEmpty` and with `BlocksOnEmpty`: a worker about to block has the mutex and an empty queue. `submit` adds a task and a pending call of `notify_one`, the call becomes a free worker, and a pop takes a free worker and a task; the rest is counting |
| `PoolProofs!PoolOnlyLateMissTheStop` | `OnlyLateMissTheStop` | the only way into the waiters after `notify_all` is from between the predicate and the block |
| `PoolProofs!PoolImplementsTaskQueue` | `ImplementsTaskQueue` | push, pop and return are the three steps of the queue, all others stutter |
| `ApiProofs!ApiTypeCorrect` | `TypeOK` of `ApiProperties` | inductive; it bounds the candidate of a scan by the horizon |
| `ApiProofs!RowsNeverFail`, `RowsRebuild` | `ReadsNeverFail`, `RebuiltFromRow` | from `RowsOK`: the columns of every row are those of a schedule that parsed (`ParsedForm`), which `execute` does not touch, and such columns read (`FormReads`), for any width of `int` |
| `ApiProofs!StoredIsFinal` | `DefinitionIsFinal` | an insert needs an unused id, a handler's write touches the status, the writes of `execute` the status, the retry count and the run time (`ExecutedKeeps`) |
| `ApiProofs!ScanFindsFirst`, `RunsLater`, `AcceptsWhatRuns` | `CronRunIsFirstMatch`, `RunIsLater`, `AcceptedIffItRuns` where `SharedTm` is FALSE | from `RunsOK`: no minute between the present one and the candidate of a scan matches, and the thread's buffer holds the candidate while it is compared |
| `SchedulerProofs!ThreadTypeCorrect` | `TypeOK`, with when the thread exists | inductive |
| `SchedulerProofs!ThreadSleepsUntilTheTop` | `SleepsUntilTheTop` | inductive: whoever pushes holds the mutex, so never between the look at the heap and the wait, and wakes the loop |
| `SchedulerProofs!ThreadOnlyLateMissesTheStop` | `OnlyLateMissesTheStop` | after `StopNotify` the wait is entered through `Block` only, with `running_` cleared |
| `SchedulerProofs!ThreadImplementsTimerQueue` | `ImplementsTimerQueue` | from `PopsInThePast`: the clock the loop pops against was read in the past |
| `TextProofs!UnescapeEscaped` | what `escape` writes, `get_str` reads back, for every text | by induction on the length of the text that is not read yet: the reader stands at the beginning of a chunk that `escape` wrote |
| `TextProofs!RequestsRead` | `ReadsUnambiguousObjects` | of every object `ReadsMeaning`: no field before the first member with the key holds the quoted key, none of the marks between them completes it, so `KeyAt` finds that member, and the closing quote of its text is the first that `escape` did not write |
| `TextProofs!RepliesRead` | `ReplyIsARequest` | from `CallsOK`: a call's job is made of what `get_str` and `get_int` returned, a 201 reply has an id; then the same lemmas for the ten fields of `job_to_json` |

The theorems marked "without `resume_job`" have the hypothesis `"resume" \notin Ops`. It is needed and not a
convenience: with `resume_job` among the `Ops`, TLC refutes `OnePlace` by the two entries of `Scheduler.cpp:44`, and `attempt_after_failed` shows what a revived job does to the retry budget. It is a constraint on the clients, so crashes,
restarts, pauses, deletes and any number of workers and handler threads are covered.

`OnePlace` is not inductive: it does not say why the next push finds no other entry. `PlaceInv` does. Each kind of
place (heap, `due_ids`, call of `dispatch`, queue, frames, open calls) holds a job once (`Once`); no two kinds
hold it (`Apart`); a process that is down holds nothing (`DownIsEmpty`), so a restart starts from empty
places; an idle thread has no job; and nothing holds a job that is not created yet or has ended
(`EndedIsUnheld`), so that `create_job` is the only step that takes up a job. Each group of actions moves
a job from one place to at most one other (`LoopPlaces`, `WorkerPlaces`, `ExecutePlaces`, `HandlerPlaces`,
`ProcessPlaces`).

`TimeInv` adds what each place knows of the row: rows hold whole seconds, the entry in the heap, the open call and the
thread about to push hold the row's time up to the second, the clock the loop pops against lies
in the past, and the row of a popped job is due. It needs `PlaceInv`: only because no other place holds the job can
`execute` write the row's time without making an entry wrong.

`CountInv` relates the counters of `JobHistory` to the row. The row lags behind by the crashes and by the run whose
end is not written yet, so it says at which points of `execute` it does; a thread's copy of
`retry_count` is the row's as long as it runs. `RunInv` is what a thread in `execute` knows of its row for
the refinement: `retry_count` as it read it, which kind of schedule brought it where it is, a run
time that is not before the row's, and, where it writes Paused, that the row is paused or deleted.

Only model-checked:

- every liveness property (`DueJobRuns`, `DueEntryRuns`, `LoopReturnsToHeap`, `DueIsFired`, `StopReturnsUnlessLate`,
  `DestructorReturnsUnlessLate`, `EveryRequestIsAnswered`) and the two fair refinements, since TLAPS has no rules
  for ENABLED and fairness. What they rest on is proved where it is a safety property: `NoLostJob`,
  `EveryTaskHasAWakeup`, `SleepsUntilTheTop`, and who can miss a stop.

Every invariant and every other action property that a run checks is a theorem, under the hypotheses
the table names.

The texts of `TextProofs` may have any length and the objects any number of members. The induction theorems of
the library take the property as an operator, which no installed prover instantiates; `Induction` takes the set of the numbers
that have it, and each use names that set (`SkippedAt`, `WithoutKey` and the like). That the recursive functions of
`FlattenSeq`, `CloseOf` and `Unescape` exist is proved the same way, not assumed. `Symbol` is STRING with the letters of
`EscapeOf` and the keys added by name, because the provers do not take a string literal for a member of STRING.

`JobPoses` and `Posing` are the exemptions of the two text theorems; section 6 says what happens without them.

`FailedMeansExhausted` needs one of its two hypotheses: on the instance of `pool`, where two entries of one job may run
at once after a resume, TLC finds a run fail after another one's success has reset the count.

## 6. Findings

Each is a run that TLC refutes, with the sentence of the repository it contradicts in `PROJECT.json`.

- `pause_undone`: `execute` ends by writing `Active` (lines 65 and 87) without reading the row
  again, so a `pause_job` that came while the command ran is lost.
- `restore_pauses`: where `execute` finds its job paused it writes `Paused` back (line 35). A
  `resume_job` between its read and that write is undone.
- `attempt_after_failed`: `pause_job` refuses a job that has ended, but looks only once (line 117) and writes
  later (line 125). In TLC's trace it finds the job active, the job fails, is retried and fails for good; then Paused
  overwrites Failed, `resume_job` accepts the paused job and pushes it, and it fails a third time where its
  policy allows two runs. The planning document, section 4.3, promises no further attempts.
- `loop_blocked`: as `Scheduler.cpp` is written a command runs on the scheduler's thread, and one
  that does not end stops every other job.
- `stop_hangs`: `stop` clears `running_` and notifies without the mutex. If the loop has seen
  `running_` set and the heap empty and is not yet asleep, it sleeps through the notification, and `join` never
  returns. The pool's destructor has the same shape (`DestructorReturnsUnlessLate` names it).
- `stored_illegal`: `create_job` stores schedules that `ScheduleParser`, by its own messages, refuses. There are three
  kinds. In TLC's trace a one_time job is stored under the type `"onetime"`
  (`OneTimeSchedule.cpp:11`), which the parser does not know, so `execute` fails it at its first run. With the one_time
  objects taken out of `MCObjects`, TLC stores an interval that does not fit an `int` as a negative
  one (`ScheduleParser.cpp:57-62`). With that one out too, it stores a cron expression of six fields, which `CronSchedule::parse`
  takes for one of five (`CronSchedule.cpp:20`) although it says "exactly 5 fields".

Where other properties leave these cases out, they say so: `RebuiltFromRow` claims nothing of the first two kinds of row,
`AcceptedIffItRuns` nothing of cron expressions of more than five fields, and `RunIsLater` excepts a period that does not
fit an `int`. A cron field of -1 matches anything, as `*` does. `ReplyIsARequest` excludes the retry delay, which a reply calls
`retry_delay_s` and a request `retry_delay_seconds`. The default of that delay is 5 in the controller
and 3 in `CreateJobRequest`.

`ReadsUnambiguousObjects` has two exemptions, and with either removed TLC refutes it: `get_str` takes a string value that
equals a key's name for the key (`Posing`), and where a number stands in place of a string it reads the
next key (`WrongType`). `JsonUtil.hpp:58` claims that flat objects of strings and integers are handled.

`TerminalIsFinal` lets Completed or Failed become Paused, which `JobService.cpp:121` refuses and a `pause_job` whose check
is old does all the same; `attempt_after_failed` is where that leads. A job due at a fraction of a second
comes up earlier by that fraction after a restart, since the table cuts it off; `RunsWhenDue` compares with the table and does not see this.

`std::localtime` has one buffer for each thread in the C library of the checked-in Visual Studio build
and one for the process in glibc. `CronRunIsFirstMatch` is checked and proved for the first; with
`SharedTm = TRUE` TLC refutes it, with two scans that fall between each other's steps.

Two comments of `Scheduler.hpp` that the code does not keep are left as remarks: line 23 (paused
jobs are not loaded) and line 35 (`resume_job` may push a time that is no longer the stored one).

## 7. Not modelled, and why

HTTP itself (paths, headers, bodies in parts) is httplib's, which is not in the repository, and
`HttpServer` only owns it. SQLite and its C wrappers: a statement is atomic. `std::system`. The bits of
`generate_id`: any id may come out. `listDue`, whole-row `update`, `ThreadPool::pending`,
`CronSchedule::isValid` and `kv_bool` have no caller. `start` on a scheduler that runs already, which
would assign to a joinable thread: `main` does not start the scheduler yet. The messages of errors.

## 8. Plan

Done, in the order planned: the core (`JobModel`, `JobStore`, `JobSystem`) because every promise
of the program is about it; then the two synchronised components it abstracts; then the API with
the text of requests and schedules.

Next, in this order:

1. What remains of the job's life with `resume_job`: how many entries a job can have, and what two runs of one job may do to its row.
2. A composition of `JobSystem` with the stop of the pool and the scheduler, in the order in which the
   destructors of their owner would run, once the repository has such an owner.

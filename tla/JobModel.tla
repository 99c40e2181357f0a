------------------------------ MODULE JobModel ------------------------------
(***************************************************************************)
(* The data of the job scheduler: job statuses, schedules and time.        *)
(*                                                                         *)
(* What a job is created with and no operation ever changes (its schedule, *)
(* its retry policy) is a constant function of the job.  What changes is   *)
(* the row of module JobStore.                                             *)
(*                                                                         *)
(* Time is counted in ticks of system_clock, Second of them to a second.   *)
(* A number of whole seconds is represented by its number of ticks.        *)
(***************************************************************************)
EXTENDS Integers

CONSTANTS
  Job,         \* the ids that generate_id can return
  Second,      \* ticks of the clock in a second
  Kind,        \* schedule_type of each job
  Period,      \* period of an interval schedule, whole seconds
  RunAt,       \* timestamp of a one_time schedule, whole seconds
  MaxRetries,  \* RetryPolicy: max_retries
  RetryDelay,  \* RetryPolicy: retry_delay, whole seconds
  Unparsable,  \* jobs whose stored schedule ScheduleParser::parse rejects: the
               \* repository stores a one_time job under the type "onetime"
  MaxNow,      \* bound: the clock stops here
  MaxSpan      \* bound: how far ahead of the clock a run time can lie

JobStatus ==
  {"Active", "Paused", "Running", "Completed", "Failed", "Cancelled"}

\* Every run time the system can compute: the clock plus at most MaxSpan.
Time == 0 .. (MaxNow + MaxSpan)

\* system_clock::to_time_t: what the table keeps of a time.
ToTimeT(t) == t - (t % Second)

\* std::nullopt, the answer of a schedule that is exhausted.
NoTime == -1

(***************************************************************************)
(* parse_interval and parse_one_time reject values that are not positive;  *)
(* max_retries is taken from the request unchecked, so it may be negative. *)
(* So is retry_delay; a negative one makes the retry due at once, as 0.    *)
(***************************************************************************)
ASSUME ModelAssumption ==
  /\ MaxNow \in Nat
  /\ MaxSpan \in Nat \ {0}
  /\ Second \in Nat \ {0}
  /\ Kind \in [Job -> {"one_time", "interval", "cron"}]
  /\ Period \in [Job -> 1 .. MaxSpan]
  /\ RunAt \in [Job -> Time \ {0}]
  /\ MaxRetries \in [Job -> Int]
  /\ RetryDelay \in [Job -> 0 .. MaxSpan]
  /\ Unparsable \subseteq Job
  /\ \A j \in Job : \A t \in {Period[j], RunAt[j], RetryDelay[j]} : ToTimeT(t) = t

(***************************************************************************)
(* The answers job j's schedule may give to next_run(from).  A cron        *)
(* expression is not interpreted here: any later tick inside the horizon   *)
(* its scan covers, or none.                                               *)
(***************************************************************************)
OneTimeRuns(j, from)  == {IF from < RunAt[j] THEN RunAt[j] ELSE NoTime}
IntervalRuns(j, from) == {from + Period[j]}
CronRuns(from)        == ((from + 1) .. (from + MaxSpan)) \cup {NoTime}

NextRuns(j, from) ==
  CASE Kind[j] = "one_time" -> OneTimeRuns(j, from)
    [] Kind[j] = "interval" -> IntervalRuns(j, from)
    [] Kind[j] = "cron"     -> CronRuns(from)

=============================================================================

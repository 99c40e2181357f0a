----------------------------- MODULE JobHistory -----------------------------
(***************************************************************************)
(* JobSystem with two history variables that count how the runs of each    *)
(* job ended.  They watch the runner's answers and constrain nothing.      *)
(***************************************************************************)
EXTENDS JobProperties

VARIABLES
  fails,  \* runs of each job that failed since its last success
  wins    \* runs of each one_time job that succeeded

hvars == <<vars, fails, wins>>

HInit ==
  /\ Init
  /\ fails = [j \in Job |-> 0]
  /\ wins = [j \in Job |-> 0]

Succeeded(j) == \E th \in Thread : frame[th].id = j /\ RunSucceed(th)
FailedRun(j) == \E th \in Thread : frame[th].id = j /\ RunFail(th)

HNext ==
  /\ Next
  /\ fails' = [j \in Job |-> IF Succeeded(j) THEN 0
                             ELSE IF FailedRun(j) THEN fails[j] + 1
                             ELSE fails[j]]
  /\ wins' = [j \in Job |-> IF Kind[j] = "one_time" /\ Succeeded(j)
                            THEN wins[j] + 1 ELSE wins[j]]

HSpec == HInit /\ [][HNext]_hvars

-----------------------------------------------------------------------------
(***************************************************************************)
(* The retry policy is a budget: between two successes a job fails at most *)
(* once more than max_retries says.  A crash can hide one failed run, the  *)
(* one whose retry_count was not yet written.                              *)
(***************************************************************************)
RetryBudget ==
  \A j \in Job : fails[j] <= Max({MaxRetries[j], 0}) + 1 + crashes

(***************************************************************************)
(* While no crash hides a failed run, retry_count is exact for a job that  *)
(* waits for its next run: it counts the failures since the last success.  *)
(***************************************************************************)
RetryCountIsExact ==
  \A j \in Job :
    crashes = 0 /\ InHeap(j) /\ Present(db, j) => db[j].retry_count = fails[j]

\* A one_time job succeeds once, and once more for each crash at most.
OneTimeOnce == \A j \in Job : wins[j] <= 1 + crashes

(***************************************************************************)
(* The planning document, section 4.3: "if retries are exhausted, the      *)
(* job's status is set to Failed and no further attempts are made."  So,   *)
(* whatever is called meanwhile, no more runs fail than the policy allows: *)
(* pause_job and resume_job refuse a job that is Failed.                   *)
(***************************************************************************)
NoFurtherAttempts == \A j \in Job : fails[j] <= Max({MaxRetries[j], 0}) + 1

=============================================================================

------------------------------ MODULE JobStore ------------------------------
(***************************************************************************)
(* The jobs table, as a function from ids to rows, and the repository      *)
(* operations on it.  SQLite runs each statement atomically, so each       *)
(* operation is one function from table to table.                          *)
(*                                                                         *)
(* save, find_by_id and find_all are create, getById and listAll of        *)
(* SqliteJobRepository under the names its callers use.  The partial       *)
(* updates update_status, update_next_run and update_retry_count have no   *)
(* implementation in the repository: they are taken, as their callers use  *)
(* them, for UPDATE ... WHERE id=? on one column.                          *)
(***************************************************************************)
EXTENDS JobModel

\* "unused": no row with this id yet; "removed": its row was deleted.
\* An id is never given out twice: generate_id draws 128 bits, and an INSERT
\* with an id that is in the table fails, which makes create_job change nothing.
Row == [status      : JobStatus \cup {"unused", "removed"},
        next_run    : Time,
        retry_count : Nat]

Vacant(s) == [status |-> s, next_run |-> 0, retry_count |-> 0]

Present(tbl, j) == tbl[j].status \in JobStatus

Save(tbl, j, next) ==
  [tbl EXCEPT ![j] =
     [status |-> "Active", next_run |-> ToTimeT(next), retry_count |-> 0]]

\* An UPDATE whose WHERE clause matches no row changes nothing and succeeds.
UpdateStatus(tbl, j, s) ==
  IF Present(tbl, j) THEN [tbl EXCEPT ![j].status = s] ELSE tbl

UpdateNextRun(tbl, j, t) ==
  IF Present(tbl, j) THEN [tbl EXCEPT ![j].next_run = ToTimeT(t)] ELSE tbl

UpdateRetryCount(tbl, j, n) ==
  IF Present(tbl, j) THEN [tbl EXCEPT ![j].retry_count = n] ELSE tbl

Remove(tbl, j) ==
  IF Present(tbl, j) THEN [tbl EXCEPT ![j] = Vacant("removed")] ELSE tbl

=============================================================================

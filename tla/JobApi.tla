------------------------------- MODULE JobApi -------------------------------
(***************************************************************************)
(* The REST API: the routes of JobController and the calls of JobService   *)
(* behind them, over the rows of the jobs table.  JobSystem follows the    *)
(* jobs from there on; here the executor is an environment that updates    *)
(* rows, and what the Scheduler does when it is called is left out.        *)
(*                                                                         *)
(* A step is one table operation, or one call or use of std::localtime;    *)
(* everything between two of them is local to the handler's thread.        *)
(***************************************************************************)
EXTENDS JsonText, ScheduleText

CONSTANTS
  Client,    \* HTTP handler threads
  Id,        \* the ids generate_id can return
  Objects,   \* the JSON objects clients send
  Local,     \* std::localtime: the five fields of each minute
  Horizon,   \* minutes that a cron schedule scans (366 days)
  SharedTm,  \* do all threads share the buffer of std::localtime?
  MaxCalls,  \* bound: number of requests
  MaxNow     \* bound: the clock stops here

\* The members of flat objects: the key is a word, the value a text or a numeral.
Member ==
  {m \in [key : STRING \ Punctuation, str : BOOLEAN, val : Seq(STRING)] :
     m.str \/ \E w \in DOMAIN Number : m.val = <<w>>}

ASSUME ApiAssumption ==
  /\ Id \subseteq STRING
  /\ Objects \subseteq Seq(Member)
  /\ Horizon \in Nat \ {0}
  /\ MaxCalls \in Nat
  /\ MaxNow \in Nat
  /\ SharedTm \in BOOLEAN
  /\ Local \in [0 .. MaxNow + Horizon -> [1 .. 5 -> Nat]]

VARIABLES
  table,  \* the jobs table: a row for each id that is in it
  now,    \* system_clock
  tm,     \* the minute whose fields are in each thread's localtime buffer
  call,   \* the request each thread is handling
  calls   \* number of requests so far

vars == <<table, now, tm, call, calls>>

-----------------------------------------------------------------------------
(* The text of requests and replies.                                       *)

\* A request body: members with a string or an integer, in any order.
Body(o) == Obj([i \in DOMAIN o |-> IF o[i].str THEN Kv(o[i].key, o[i].val)
                                   ELSE KvInt(o[i].key, Value(o[i].val))])

ReadRequest(body) ==
  [name                |-> GetStr(body, "name"),
   schedule_type       |-> GetStr(body, "schedule_type"),
   schedule_expr       |-> GetStr(body, "schedule_expr"),
   execution_target    |-> GetStr(body, "execution_target"),
   max_retries         |-> GetInt(body, "max_retries", 0),
   retry_delay_seconds |-> GetInt(body, "retry_delay_seconds", 5)]

Request(o) == ReadRequest(Body(o))

JobToJson(id, job) ==
  Obj(<<Kv("id", <<id>>), Kv("name", job.name), Kv("status", <<job.status>>),
        Kv("schedule_type", job.schedule_type), Kv("schedule_expr", job.schedule_expr),
        Kv("execution_target", job.execution_target),
        KvInt("max_retries", job.max_retries),
        KvInt("retry_delay_s", job.retry_delay),
        KvInt("retry_count", job.retry_count), KvInt("next_run_time", job.next_run_time)>>)

-----------------------------------------------------------------------------
(* Jobs and rows.                                                          *)

StatusText == [Active |-> "active", Paused |-> "paused", Running |-> "running",
               Completed |-> "completed", Failed |-> "failed",
               Cancelled |-> "cancelled"]

\* Any text that is none of the others is Active.
StatusOf(text) ==
  IF \E s \in DOMAIN StatusText \ {"Active"} : StatusText[s] = text
  THEN CHOOSE s \in DOMAIN StatusText : StatusText[s] = text ELSE "Active"

\* The job create_job builds; its id is drawn when it is saved.
NewJob(req, next) ==
  [name |-> req.name, status |-> "Active",
   schedule_type |-> req.schedule_type, schedule_expr |-> req.schedule_expr,
   execution_target |-> req.execution_target, max_retries |-> req.max_retries,
   retry_delay |-> req.retry_delay_seconds, retry_count |-> 0, next_run_time |-> next]

ScheduleOf(job) == Parse(job.schedule_type, job.schedule_expr)

ToRow(job) ==
  [job EXCEPT !.status = StatusText[job.status],
              !.schedule_type = Type(ScheduleOf(job)),
              !.schedule_expr = Serialize(ScheduleOf(job))]

\* rowToJob throws if the schedule does not read.
Reads(row) == FromRow(row.schedule_type, row.schedule_expr) # NoSchedule

NoJob == NewJob([name |-> <<>>, schedule_type |-> <<>>, schedule_expr |-> <<>>,
                 execution_target |-> <<>>, max_retries |-> 0,
                 retry_delay_seconds |-> 0], 0)

-----------------------------------------------------------------------------
(* post: it is a POST; from: the clock when create_job asks for the next   *)
(* run; cand: the candidate of a scan.                                     *)
CallPc == {"idle", "posted", "localtime", "compare", "save",
           "pause", "resume", "delete", "reply"}
NoCall == [pc |-> "idle", post |-> FALSE, obj |-> <<>>, job |-> NoJob, from |-> 0, cand |-> 0,
           id |-> "", code |-> 0]

Init ==
  /\ table = [i \in {} |-> ToRow(NoJob)]
  /\ now = 0
  /\ tm = [c \in Client |-> 0]
  /\ call = [c \in Client |-> NoCall]
  /\ calls = 0

Tick ==
  /\ now < MaxNow
  /\ now' = now + 1
  /\ UNCHANGED <<table, tm, call, calls>>

\* The first minute a cron expression matches, if it is within the horizon.
FirstMatch(expr, from) ==
  {m \in from + 1 .. from + Horizon :
     /\ Matches(Local[m], expr)
     /\ \A l \in from + 1 .. m - 1 : ~Matches(Local[l], expr)}

\* The times execute can move a row to: a retry, or the next run of its schedule.
\* Its cron scan is not interrupted here; that of create_job, below, is.
RunTimes(row) ==
  LET s == ScheduleOf(row)
  IN  {t \in {now + row.retry_delay} : row.max_retries > 0}
        \cup (IF s.class = "cron" THEN FirstMatch(s.data, now) ELSE {NextRunAfter(s, now)})

\* A row after one update of dispatch or execute, in any order; JobSystem has the order.
\* Without a schedule execute gets no further than Failed.
Executed(row) ==
  {[row EXCEPT !.status = StatusText[s]] : s \in {"Running", "Paused", "Failed"}}
    \cup IF ScheduleOf(row) = NoSchedule THEN {}
         ELSE {[row EXCEPT !.status = StatusText[s]] : s \in {"Active", "Completed"}}
                \cup {[row EXCEPT !.retry_count = n] : n \in {0} \cup 1 .. row.max_retries}
                \cup {[row EXCEPT !.next_run_time = t] : t \in RunTimes(row)}

\* The executor's update_status, update_retry_count or update_next_run.
ExecutorWrites ==
  /\ \E i \in DOMAIN table : \E row \in Executed(table[i]) :
       table' = [table EXCEPT ![i] = row]
  /\ UNCHANGED <<now, tm, call, calls>>

Arrives(c) ==
  /\ call[c].pc = "idle"
  /\ calls < MaxCalls
  /\ calls' = calls + 1

Reply(c, code)  == call' = [call EXCEPT ![c].pc = "reply", ![c].code = code]
Answered(c) ==
  /\ call[c].pc = "reply"
  /\ call' = [call EXCEPT ![c] = NoCall]
  /\ UNCHANGED <<table, now, tm, calls>>

-----------------------------------------------------------------------------
(* POST /jobs.                                                             *)

Post(c) ==
  /\ Arrives(c)
  /\ \E o \in Objects :
       call' = [call EXCEPT ![c] = [NoCall EXCEPT !.pc = "posted", !.post = TRUE,
                                                  !.obj = o, !.job = NewJob(Request(o), 0)]]
  /\ UNCHANGED <<table, now, tm>>

\* The job that the posted object asks for.
Asked(c) == call[c].job

\* Mutant: a schedule without a next run is not refused.
RefusedUnlessEmpty(job) ==
  \/ ScheduleOf(job) = NoSchedule
  \/ job.name = <<>>
  \/ job.execution_target = <<>>

\* What create_job refuses before a scan.
Refused(job) ==
  \/ ScheduleOf(job) = NoSchedule
  \/ job.name = <<>>
  \/ job.execution_target = <<>>
  \/ /\ ScheduleOf(job).class = "one_time"
     /\ NextRunAfter(ScheduleOf(job), now) = NoTime

Refuse(c) ==
  /\ call[c].pc = "posted"
  /\ Refused(Asked(c))
  /\ call' = [call EXCEPT ![c] = [@ EXCEPT !.pc = "reply", !.code = 400, !.from = now]]
  /\ UNCHANGED <<table, now, tm, calls>>

PlanRun(c) ==
  /\ call[c].pc = "posted"
  /\ ~Refused(Asked(c))
  /\ LET s == ScheduleOf(Asked(c))
     IN  /\ s.class # "cron"
         /\ call' = [call EXCEPT ![c] =
              [@ EXCEPT !.pc = "save", !.from = now,
                        !.job.next_run_time = NextRunAfter(s, now)]]
  /\ UNCHANGED <<table, now, tm, calls>>

\* Mutant: the scan begins with the present minute.
FirstCandidateNow(from) == from

FirstCandidate(from) == from + 1

StartScan(c) ==
  /\ call[c].pc = "posted"
  /\ ~Refused(Asked(c))
  /\ ScheduleOf(Asked(c)).class = "cron"
  /\ call' = [call EXCEPT ![c] = [@ EXCEPT !.pc = "localtime", !.from = now,
                                           !.cand = FirstCandidate(now)]]
  /\ UNCHANGED <<table, now, tm, calls>>

\* One buffer for the process, or one for each thread.
LocalTime(c) ==
  /\ call[c].pc = "localtime"
  /\ tm' = [d \in Client |-> IF d = c \/ SharedTm THEN call[c].cand ELSE tm[d]]
  /\ call' = [call EXCEPT ![c].pc = "compare"]
  /\ UNCHANGED <<table, now, calls>>

Found(c) == Matches(Local[tm[c]], call[c].job.schedule_expr)

CompareHit(c) ==
  /\ call[c].pc = "compare"
  /\ Found(c)
  /\ call' = [call EXCEPT ![c] = [@ EXCEPT !.pc = "save",
                                           !.job.next_run_time = call[c].cand]]
  /\ UNCHANGED <<table, now, tm, calls>>

\* Mutant: the candidate is not advanced.
CompareStays(c) ==
  /\ call[c].pc = "compare"
  /\ ~Found(c)
  /\ call' = [call EXCEPT ![c].pc = "localtime"]
  /\ UNCHANGED <<table, now, tm, calls>>

CompareMiss(c) ==
  /\ call[c].pc = "compare"
  /\ ~Found(c)
  /\ IF call[c].cand < call[c].from + Horizon
     THEN call' = [call EXCEPT ![c].pc = "localtime", ![c].cand = @ + 1]
     ELSE Reply(c, 400)
  /\ UNCHANGED <<table, now, tm, calls>>

\* Mutant: INSERT OR REPLACE.
SaveOrReplace(c) ==
  /\ call[c].pc = "save"
  /\ \E i \in Id :
       /\ table' = [k \in DOMAIN table \cup {i} |->
                      IF k = i THEN ToRow(call[c].job) ELSE table[k]]
       /\ call' = [call EXCEPT ![c] = [@ EXCEPT !.pc = "reply", !.code = 201, !.id = i]]
  /\ UNCHANGED <<now, tm, calls>>

\* generate_id draws from a generator that the threads share without a lock:
\* any id.  The id is the primary key: with one that is taken, exec throws.
Save(c) ==
  /\ call[c].pc = "save"
  /\ \E i \in Id :
       IF i \in DOMAIN table
       THEN Reply(c, 500) /\ UNCHANGED table
       ELSE /\ table' = [k \in DOMAIN table \cup {i} |->
                           IF k = i THEN ToRow(call[c].job) ELSE table[k]]
            /\ call' = [call EXCEPT ![c] = [@ EXCEPT !.pc = "reply", !.code = 201, !.id = i]]
  /\ UNCHANGED <<now, tm, calls>>

-----------------------------------------------------------------------------
(* The other routes.  An exception out of a handler is answered with 500.  *)

ListJobs(c) ==
  /\ Arrives(c)
  /\ Reply(c, IF \A i \in DOMAIN table : Reads(table[i]) THEN 200 ELSE 500)
  /\ UNCHANGED <<table, now, tm>>

\* The answer of a route to id i once find_by_id has returned; 0: it goes on.
Code(route, i) ==
  CASE i \notin DOMAIN table -> 404
    [] i \in DOMAIN table /\ ~Reads(table[i]) -> 500
    [] OTHER -> CASE route = "pause"  -> IF StatusOf(table[i].status) \in {"Active", "Running"}
                                         THEN 0 ELSE 400
                  [] route = "resume" -> IF StatusOf(table[i].status) = "Paused" THEN 0 ELSE 400
                  [] route = "delete" -> 0
                  [] OTHER -> 200

RouteById(c) ==
  /\ Arrives(c)
  /\ \E i \in Id, route \in {"get", "pause", "resume", "delete"} :
       IF Code(route, i) = 0
       THEN call' = [call EXCEPT ![c] = [@ EXCEPT !.pc = route, !.id = i]]
       ELSE Reply(c, Code(route, i))
  /\ UNCHANGED <<table, now, tm>>

WriteStatus(c, route, status) ==
  /\ call[c].pc = route
  /\ table' = [i \in DOMAIN table |->
                 IF i = call[c].id THEN [table[i] EXCEPT !.status = StatusText[status]]
                 ELSE table[i]]
  /\ Reply(c, 200)
  /\ UNCHANGED <<now, tm, calls>>

RemoveRow(c) ==
  /\ call[c].pc = "delete"
  /\ table' = [i \in DOMAIN table \ {call[c].id} |-> table[i]]
  /\ Reply(c, 204)
  /\ UNCHANGED <<now, tm, calls>>

-----------------------------------------------------------------------------
HandlerStep(c) ==
  \/ Refuse(c) \/ PlanRun(c) \/ StartScan(c)
  \/ LocalTime(c) \/ CompareHit(c) \/ CompareMiss(c) \/ Save(c)
  \/ WriteStatus(c, "pause", "Paused") \/ WriteStatus(c, "resume", "Active")
  \/ RemoveRow(c) \/ Answered(c)

Next ==
  \/ Tick \/ ExecutorWrites
  \/ \E c \in Client : Post(c) \/ ListJobs(c) \/ RouteById(c) \/ HandlerStep(c)

\* Every handler thread that can run does.
Spec == Init /\ [][Next]_vars /\ \A c \in Client : WF_vars(HandlerStep(c))

=============================================================================

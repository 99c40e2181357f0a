---------------------------- MODULE ApiProperties ----------------------------
(***************************************************************************)
(* What JobApi promises to the clients and to the rest of the service.     *)
(***************************************************************************)
EXTENDS JobApi

\* The call of a thread has its fields; a scan stays within the horizon.
IsCall(k) ==
  /\ DOMAIN k = DOMAIN NoCall
  /\ DOMAIN k.job = DOMAIN NoJob
  /\ k.pc \in CallPc
  /\ k.post \in BOOLEAN
  /\ k.from \in 0 .. now
  /\ k.code \in {0, 200, 201, 204, 400, 404, 500}
  /\ k.pc \in {"pause", "resume", "delete"} => k.id \in Id
  /\ k.pc \in {"localtime", "compare"} => k.cand \in k.from + 1 .. k.from + Horizon

\* Every variable has its type; texts are whatever the parsers return.
TypeOK ==
  /\ DOMAIN table \subseteq Id
  /\ \A i \in DOMAIN table : DOMAIN table[i] = DOMAIN NoJob
  /\ now \in 0 .. MaxNow
  /\ tm \in [Client -> 0 .. MaxNow + Horizon]
  /\ DOMAIN call = Client
  /\ \A c \in Client : IsCall(call[c])
  /\ calls \in 0 .. MaxCalls

-----------------------------------------------------------------------------
(* Reading requests.                                                       *)

StringKeys == {"name", "schedule_type", "schedule_expr", "execution_target"}
IntKeys    == {"max_retries", "retry_delay_seconds"}

\* generate_id returns hexadecimal digits.
ASSUME IdAssumption == Id \cap (StringKeys \cup IntKeys) = {}

Members(o, key) == {i \in DOMAIN o : o[i].key = key}

\* What a flat object means: the value of its first member with that key, if it
\* is of the type asked for.
MeantStr(o, key) ==
  LET m == Members(o, key)
  IN  IF m # {} /\ o[Min(m)].str THEN o[Min(m)].val ELSE <<>>

MeantInt(o, key, def) ==
  LET m == Members(o, key)
  IN  IF m # {} /\ ~o[Min(m)].str /\ StoiReads(o[Min(m)].val)
      THEN Value(o[Min(m)].val) ELSE def

ReadsStr(o, key) == GetStr(Body(o), key) = MeantStr(o, key)
ReadsInt(o, key, def) == GetInt(Body(o), key, def) = MeantInt(o, key, def)

\* Some string of the object, as it is written, holds the quoted key.
Posing(o, key) == \E i \in DOMAIN o : o[i].str /\ KeyAt(Quoted(Escape(o[i].val)), key) # 0

\* The string that is asked for is a number.
WrongType(o, key) == Members(o, key) # {} /\ ~o[Min(Members(o, key))].str

(***************************************************************************)
(* SimpleParser finds a value without regard to the structure of the body. *)
(* It reads what the object means, whatever the order of the members and   *)
(* the characters escaped in their strings, as long as no string poses as  *)
(* the key and a string that is asked for is a string.                     *)
(***************************************************************************)
ReadsUnambiguousObjects ==
  \A c \in Client : call[c].pc = "posted" =>
    LET o == call[c].obj
    IN  /\ \A key \in StringKeys : Posing(o, key) \/ WrongType(o, key) \/ ReadsStr(o, key)
        /\ \A key \in IntKeys : Posing(o, key) \/ ReadsInt(o, key, 0)

\* The value of a text of the job poses as one of the keys.
JobPoses(job) ==
  \E v \in {job.name, job.schedule_type, job.schedule_expr, job.execution_target},
     key \in StringKeys \cup IntKeys : KeyAt(Quoted(Escape(v)), key) # 0

(***************************************************************************)
(* A 201 reply, posted again, asks for the same job, but for its retry     *)
(* delay, which has another name there and falls back to its default: what *)
(* escape writes, get_str reads back.                                      *)
(***************************************************************************)
ReplyIsARequest ==
  \A c \in Client : call[c].pc = "reply" /\ call[c].code = 201 =>
    LET job == call[c].job
    IN  JobPoses(job) \/ NewJob(ReadRequest(JobToJson(call[c].id, job)), job.next_run_time)
                           = [job EXCEPT !.retry_delay = 5]

-----------------------------------------------------------------------------
(* Creating jobs.                                                          *)

\* The minutes within the horizon at which a cron expression matches.
MatchesAfter(expr, from) ==
  {m \in from + 1 .. from + Horizon : Matches(Local[m], expr)}

HasRun(type, expr, from) ==
  \/ type = <<"one_time">> /\ StollReads(expr) /\ Value(expr) > from
  \/ type = <<"interval">> /\ StollReads(expr) /\ Value(expr) > 0
  \/ /\ type = <<"cron">>
     /\ Len(expr) = 5
     /\ \A i \in 1 .. 5 : CronWord(expr[i])
     /\ MatchesAfter(expr, from) # {}

(***************************************************************************)
(* create_job accepts a request if and only if it names a job, a target    *)
(* and a schedule that has a run, a cron match within the horizon          *)
(* included.  A cron expression has five fields; with more of them create  *)
(* goes wrong, as StoredIsLegal shows, and nothing is claimed here.        *)
(***************************************************************************)
AcceptedIffItRuns ==
  \A c \in Client :
    LET r == call[c].job
    IN  /\ call[c].pc = "reply" /\ call[c].post /\ call[c].code # 500
        /\ r.schedule_type = <<"cron">> => Len(r.schedule_expr) \in 0 .. 5
        => (call[c].code = 201 <=>
            /\ r.name # <<>> /\ r.execution_target # <<>>
            /\ HasRun(r.schedule_type, r.schedule_expr, call[c].from))

(***************************************************************************)
(* The run of a cron job is the first matching minute after the present    *)
(* one: the scan skips none.                                               *)
(***************************************************************************)
CronRunIsFirstMatch ==
  \A c \in Client :
    LET job == call[c].job
    IN  call[c].pc = "save" /\ job.schedule_type = <<"cron">> =>
          /\ job.next_run_time \in MatchesAfter(job.schedule_expr, call[c].from)
          /\ \A m \in MatchesAfter(job.schedule_expr, call[c].from) : job.next_run_time <= m

(***************************************************************************)
(* A job is created to run later, unless its period does not fit an int:   *)
(* the check that it is positive is made before it is cut down.            *)
(***************************************************************************)
RunIsLater ==
  \A c \in Client :
    LET job == call[c].job
    IN  call[c].pc = "save" =>
          \/ job.next_run_time > call[c].from
          \/ job.schedule_type = <<"interval">> /\ Value(job.schedule_expr) > IntMax

-----------------------------------------------------------------------------
(* The rows.                                                               *)

(***************************************************************************)
(* "Build the schedule object from persisted type + expr" (Executor.cpp):  *)
(* what execute parses from a row is the schedule the repository reads     *)
(* from it.  Nothing is claimed of the rows that StoredIsLegal is about: a *)
(* type that the parser does not know, and a period cut to zero or less.   *)
(***************************************************************************)
RebuiltFromRow ==
  \A i \in DOMAIN table :
    LET type == table[i].schedule_type
        data == table[i].schedule_expr
    IN  /\ type # <<"onetime">>
        /\ ~(type = <<"interval">> /\ Value(data) <= 0)
        => Parse(type, data) = FromRow(type, data)

\* What ScheduleParser and CronSchedule say of a schedule when they refuse it:
\* "Valid types: one_time, interval, cron", a time or period > 0, 5 fields.
Legal(type, expr) ==
  \/ type \in {<<"one_time">>, <<"interval">>} /\ StollReads(expr) /\ Value(expr) > 0
  \/ type = <<"cron">> /\ Len(expr) = 5

(***************************************************************************)
(* A job that was accepted is stored with a schedule that ScheduleParser,  *)
(* by its own messages, accepts: execute parses it again at every run.     *)
(***************************************************************************)
StoredIsLegal ==
  \A i \in DOMAIN table : Legal(table[i].schedule_type, table[i].schedule_expr)

(***************************************************************************)
(* No request stores a row that does not read: one such row would fail     *)
(* every list, and load_from_repository.  Only a create that draws a taken *)
(* id is answered with 500.                                                *)
(***************************************************************************)
ReadsNeverFail ==
  \A c \in Client : call[c].code = 500 => call[c].post

\* What a job was created with; the rest is what execute keeps up to date.
Definition(row) ==
  [f \in DOMAIN row \ {"status", "retry_count", "next_run_time"} |-> row[f]]

(***************************************************************************)
(* Whatever ids the unlocked generator hands out, whatever handlers        *)
(* interleave and whatever execute updates, a stored job keeps the name,   *)
(* the schedule, the target and the retry policy it was created with.      *)
(***************************************************************************)
DefinitionIsFinal ==
  [][\A i \in DOMAIN table \cap DOMAIN table' :
       Definition(table'[i]) = Definition(table[i])]_vars

\* Every request is answered: a scan ends, with or without a match.
EveryRequestIsAnswered ==
  \A c \in Client : call[c].pc # "idle" ~> call[c].pc = "idle"

=============================================================================

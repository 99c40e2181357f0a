---------------------------- MODULE ScheduleText ----------------------------
(***************************************************************************)
(* The three schedules and their text: what ScheduleParser makes of a      *)
(* request or a job, what type and serialize put into the table, and what  *)
(* rowToJob makes of that.  A schedule is its class and what serialize     *)
(* says of it; NoSchedule stands for a conversion that throws.             *)
(*                                                                         *)
(* Time is counted in minutes, the step of the cron scan.  What the clock  *)
(* has beyond a whole minute passes through every function unchanged and   *)
(* is left out; periods and timestamps are taken in the same unit.         *)
(***************************************************************************)
EXTENDS Words

NoTime     == -1   \* std::nullopt
NoSchedule == [class |-> "none", data |-> <<>>]

CronWord(w) == w = "*" \/ StoiReads(<<w>>)

\* The first five words are converted; what follows them is not looked at.
ParseCron(expr) ==
  IF Len(expr) >= 5 /\ \A i \in 1 .. 5 : CronWord(expr[i])
  THEN [class |-> "cron", data |-> expr] ELSE NoSchedule

ParseOneTime(expr) ==
  IF StollReads(expr) /\ Value(expr) > 0
  THEN [class |-> "one_time", data |-> <<Numeral(Value(expr))>>] ELSE NoSchedule

\* Mutant: the period keeps the width in which it was parsed.
ParseIntervalWide(expr) ==
  IF StollReads(expr) /\ Value(expr) > 0
  THEN [class |-> "interval", data |-> <<Numeral(Value(expr))>>]
  ELSE NoSchedule

\* The check is on the 64-bit count, the schedule keeps an int.
ParseInterval(expr) ==
  IF StollReads(expr) /\ Value(expr) > 0
  THEN [class |-> "interval", data |-> <<Numeral(ToInt(Value(expr)))>>]
  ELSE NoSchedule

Parse(type, expr) ==
  CASE type = <<"one_time">> -> ParseOneTime(expr)
    [] type = <<"interval">> -> ParseInterval(expr)
    [] type = <<"cron">>     -> ParseCron(expr)
    [] OTHER                 -> NoSchedule

\* Mutant: a one_time schedule whose time is now is still to come.
NextRunAfterNotStrict(s, from) ==
  IF s.class = "interval" THEN from + Value(s.data)
  ELSE IF from <= Value(s.data) THEN Value(s.data) ELSE NoTime

\* nextRunAfter of a one_time or interval schedule.
NextRunAfter(s, from) ==
  IF s.class = "interval" THEN from + Value(s.data)
  ELSE IF from < Value(s.data) THEN Value(s.data) ELSE NoTime

\* Minute, hour, day of month, month and day of week; -1 stands for "*".
Fields(expr) == [i \in 1 .. 5 |-> IF expr[i] = "*" THEN -1 ELSE Number[expr[i]]]

FieldMatches(value, field) == field = -1 \/ field = value

Matches(tm, expr) == \A i \in 1 .. 5 : FieldMatches(tm[i], Fields(expr)[i])

-----------------------------------------------------------------------------
(* The columns schedule_type and schedule_data.                            *)

Type(s) == IF s.class = "one_time" THEN <<"onetime">> ELSE <<s.class>>
Serialize(s) == s.data

FromRow(type, data) ==
  CASE type = <<"onetime">>  -> IF StollReads(data)
                                THEN [class |-> "one_time", data |-> <<data[1]>>]
                                ELSE NoSchedule
    [] type = <<"interval">> -> IF StoiReads(data)
                                THEN [class |-> "interval", data |-> <<data[1]>>]
                                ELSE NoSchedule
    [] type = <<"cron">>     -> ParseCron(data)
    [] OTHER                 -> [class |-> "null", data |-> <<>>]

=============================================================================

------------------------------ MODULE ApiProofs ------------------------------
(***************************************************************************)
(* Theorems about JobApi, for every number of handler threads, every set   *)
(* of objects, every width of int and every value of the bounds.           *)
(***************************************************************************)
EXTENDS ApiProperties, TLAPS

-----------------------------------------------------------------------------
(* Numerals and ints.                                                      *)

\* to_string writes a numeral of the integer, if the integer has one.
LEMMA NumeralReads ==
  ASSUME NEW w \in DOMAIN Number
  PROVE  /\ Numeral(Number[w]) \in DOMAIN Number
         /\ Number[Numeral(Number[w])] = Number[w]
BY DEF Numeral

\* It has one for every int.
LEMMA IntNumeral ==
  ASSUME NEW n \in Int32
  PROVE  Numeral(n) \in DOMAIN Number /\ Number[Numeral(n)] = n
BY WordsAssumption DEF Numeral, WordsAssumption

\* A remainder.
LEMMA Remainder ==
  ASSUME NEW a \in Int, NEW b \in Nat \ {0}
  PROVE  a % b \in 0 .. b - 1 /\ (a \in 0 .. b - 1 => a % b = a)
OBVIOUS

\* static_cast gives an int, and an int is left as it is.
LEMMA ToIntInt ==
  ASSUME NEW n \in Int
  PROVE  ToInt(n) \in Int32 /\ (n \in Int32 => ToInt(n) = n)
<1>1. IntMax \in Nat
  BY WordsAssumption DEF WordsAssumption
<1>2. n + IntMax + 1 \in Int /\ 2 * (IntMax + 1) \in Nat \ {0}
  BY <1>1
<1>3. (n + IntMax + 1) % (2 * (IntMax + 1)) \in 0 .. 2 * (IntMax + 1) - 1
  BY <1>2, Remainder
<1>4. ASSUME n \in Int32
      PROVE  (n + IntMax + 1) % (2 * (IntMax + 1)) = n + IntMax + 1
  <2>1. n + IntMax + 1 \in 0 .. 2 * (IntMax + 1) - 1
    BY <1>1, <1>4 DEF Int32
  <2> QED
    BY <2>1, <1>2, Remainder
<1> QED
  BY <1>1, <1>3, <1>4 DEF ToInt, Int32

-----------------------------------------------------------------------------
(* Schedules and their columns.                                            *)

\* What a schedule that parses puts into the columns.
RowForm(type, data) ==
  \/ type = <<"onetime">> /\ \E w \in DOMAIN Number : data = <<w>>
  \/ type = <<"interval">> /\ \E n \in Int32 : data = <<Numeral(n)>>
  \/ type = <<"cron">> /\ ParseCron(data) # NoSchedule

\* Only parsing a cron expression gives a cron schedule, with that text.
LEMMA ParsedClass ==
  ASSUME NEW type, NEW expr, Parse(type, expr) # NoSchedule
  PROVE  \/ /\ type = <<"one_time">>
            /\ StollReads(expr) /\ Value(expr) > 0
            /\ Parse(type, expr) =
                 [class |-> "one_time", data |-> <<Numeral(Value(expr))>>]
         \/ /\ type = <<"interval">>
            /\ StollReads(expr) /\ Value(expr) > 0
            /\ Parse(type, expr) =
                 [class |-> "interval", data |-> <<Numeral(ToInt(Value(expr)))>>]
         \/ /\ type = <<"cron">>
            /\ ParseCron(expr) # NoSchedule
            /\ Parse(type, expr) = [class |-> "cron", data |-> expr]
<1>0. /\ <<"one_time">> # <<"interval">> /\ <<"one_time">> # <<"cron">>
      /\ <<"interval">> # <<"cron">>
  OBVIOUS
<1>1. CASE type = <<"one_time">>
  BY <1>1 DEF Parse, ParseOneTime
<1>2. CASE type = <<"interval">>
  BY <1>0, <1>2 DEF Parse, ParseInterval
<1>3. CASE type = <<"cron">>
  BY <1>0, <1>3 DEF Parse, ParseCron
<1>4. CASE type \notin {<<"one_time">>, <<"interval">>, <<"cron">>}
  BY <1>4 DEF Parse
<1> QED
  BY <1>1, <1>2, <1>3, <1>4

LEMMA ParsedForm ==
  ASSUME NEW type, NEW expr, Parse(type, expr) # NoSchedule
  PROVE  RowForm(Type(Parse(type, expr)), Serialize(Parse(type, expr)))
<1>1. CASE /\ StollReads(expr)
           /\ Parse(type, expr) =
                [class |-> "one_time", data |-> <<Numeral(Value(expr))>>]
  <2>1. Numeral(Value(expr)) \in DOMAIN Number
    BY <1>1, NumeralReads DEF StollReads, Value
  <2> QED
    BY <1>1, <2>1 DEF RowForm, Type, Serialize
<1>2. CASE /\ StollReads(expr)
           /\ Parse(type, expr) =
                [class |-> "interval", data |-> <<Numeral(ToInt(Value(expr)))>>]
  <2>1. Value(expr) \in Int
    BY <1>2, WordsAssumption DEF StollReads, Value, WordsAssumption
  <2>2. ToInt(Value(expr)) \in Int32
    BY <2>1, ToIntInt
  <2> QED
    BY <1>2, <2>2 DEF RowForm, Type, Serialize
<1>3. CASE /\ ParseCron(expr) # NoSchedule
           /\ Parse(type, expr) = [class |-> "cron", data |-> expr]
  BY <1>3 DEF RowForm, Type, Serialize
<1> QED
  BY <1>1, <1>2, <1>3, ParsedClass

\* Columns of that form read; which of them execute can parse again.
LEMMA FormReads ==
  ASSUME NEW type, NEW data, RowForm(type, data)
  PROVE  /\ FromRow(type, data) # NoSchedule
         /\ Parse(type, data) = FromRow(type, data) <=>
              type # <<"onetime">> /\ ~(type = <<"interval">> /\ Value(data) <= 0)
<1>0. /\ <<"onetime">> # <<"interval">> /\ <<"onetime">> # <<"cron">>
      /\ <<"onetime">> # <<"one_time">> /\ <<"interval">> # <<"cron">>
      /\ <<"interval">> # <<"one_time">> /\ <<"cron">> # <<"one_time">>
  OBVIOUS
<1>1. ASSUME type = <<"onetime">>, NEW w \in DOMAIN Number, data = <<w>>
      PROVE  /\ FromRow(type, data) = [class |-> "one_time", data |-> <<w>>]
             /\ Parse(type, data) = NoSchedule
  <2>1. StollReads(data)
    BY <1>1 DEF StollReads
  <2>2. FromRow(type, data) = [class |-> "one_time", data |-> <<w>>]
    BY <1>0, <1>1, <2>1 DEF FromRow
  <2>3. Parse(type, data) = NoSchedule
    BY <1>0, <1>1 DEF Parse
  <2> QED
    BY <2>2, <2>3
<1>2. ASSUME type = <<"interval">>, NEW n \in Int32, data = <<Numeral(n)>>
      PROVE  /\ FromRow(type, data) = [class |-> "interval", data |-> data]
             /\ Value(data) = n
             /\ Parse(type, data) = IF n > 0 THEN FromRow(type, data) ELSE NoSchedule
  <2>1. Numeral(n) \in DOMAIN Number /\ Number[Numeral(n)] = n
    BY IntNumeral
  <2>2. StollReads(data) /\ StoiReads(data) /\ Value(data) = n
    BY <1>2, <2>1 DEF StollReads, StoiReads, Value
  <2>3. FromRow(type, data) = [class |-> "interval", data |-> data]
    BY <1>0, <1>2, <2>2 DEF FromRow
  <2>4. ToInt(n) = n
    BY ToIntInt DEF Int32
  <2>5. Parse(type, data) = ParseInterval(data)
    BY <1>0, <1>2 DEF Parse
  <2> QED
    BY <1>2, <2>2, <2>3, <2>4, <2>5 DEF ParseInterval
<1>3. ASSUME type = <<"cron">>, ParseCron(data) # NoSchedule
      PROVE  FromRow(type, data) = ParseCron(data) /\ Parse(type, data) = ParseCron(data)
  BY <1>0, <1>3 DEF FromRow, Parse
<1>4. CASE type = <<"onetime">>
  <2>1. PICK w \in DOMAIN Number : data = <<w>>
    BY <1>0, <1>4 DEF RowForm
  <2>2. FromRow(type, data) = [class |-> "one_time", data |-> <<w>>] /\ Parse(type, data) = NoSchedule
    BY <1>1, <1>4, <2>1
  <2>3. FromRow(type, data) # NoSchedule
    BY <2>2 DEF NoSchedule
  <2> QED
    BY <1>4, <2>2, <2>3
<1>5. CASE type = <<"interval">>
  <2>1. PICK n \in Int32 : data = <<Numeral(n)>>
    BY <1>0, <1>5 DEF RowForm
  <2>2. /\ FromRow(type, data) = [class |-> "interval", data |-> data]
        /\ Value(data) = n
        /\ Parse(type, data) = IF n > 0 THEN FromRow(type, data) ELSE NoSchedule
    BY <1>2, <1>5, <2>1
  <2>3. FromRow(type, data) # NoSchedule
    BY <2>2 DEF NoSchedule
  <2>4. n \in Int
    BY WordsAssumption DEF Int32, WordsAssumption
  <2>5. n > 0 <=> ~(n <= 0)
    BY <2>4
  <2> QED
    BY <1>0, <1>5, <2>2, <2>3, <2>5
<1>6. CASE type = <<"cron">> /\ ParseCron(data) # NoSchedule
  BY <1>0, <1>3, <1>6
<1> QED
  BY <1>4, <1>5, <1>6 DEF RowForm

-----------------------------------------------------------------------------
(* Types.                                                                  *)

\* The call of an idle thread is one.
LEMMA IdleTypes ==
  ASSUME now \in Nat
  PROVE  IsCall(NoCall)
BY DEF IsCall, NoCall, NoJob, NewJob, CallPc

LEMMA InitType ==
  ASSUME Init
  PROVE  TypeOK
<1>1. \A c \in Client : call[c] = NoCall
  BY DEF Init
<1>2. IsCall(NoCall)
  BY IdleTypes DEF Init
<1>3. \A i \in DOMAIN table : DOMAIN table[i] = DOMAIN NoJob
  BY DEF Init
<1> QED
  BY <1>1, <1>2, <1>3, ApiAssumption DEF Init, TypeOK, ApiAssumption

\* What the steps of a thread do to the calls: one changes, to a call.
LEMMA CallTypes ==
  ASSUME TypeOK, NEW c \in Client, NEW k,
         call' = [call EXCEPT ![c] = k], IsCall(k), UNCHANGED now
  PROVE  DOMAIN call' = Client /\ \A d \in Client : IsCall(call[d])'
<1>1. \A d \in Client : call'[d] = IF d = c THEN k ELSE call[d]
  BY DEF TypeOK
<1> QED
  BY <1>1 DEF TypeOK, IsCall

\* A reply is a call.
LEMMA ReplyTypes ==
  ASSUME TypeOK, NEW c \in Client, NEW code \in {0, 200, 201, 204, 400, 404, 500},
         Reply(c, code), UNCHANGED now
  PROVE  DOMAIN call' = Client /\ \A d \in Client : IsCall(call[d])'
<1> DEFINE k == [call[c] EXCEPT !.pc = "reply", !.code = code]
<1>1. IsCall(call[c])
  BY DEF TypeOK
<1>2. IsCall(k)
  BY <1>1 DEF IsCall, CallPc, NoCall
<1>3. call' = [call EXCEPT ![c] = k]
  BY DEF Reply, TypeOK
<1> HIDE DEF k
<1> QED
  BY <1>2, <1>3, CallTypes

LEMMA HandlerType ==
  ASSUME TypeOK, NEW c \in Client, HandlerStep(c)
  PROVE  TypeOK'
<1>0. /\ IsCall(call[c]) /\ DOMAIN call = Client
      /\ DOMAIN table \subseteq Id /\ now \in 0 .. MaxNow /\ calls \in 0 .. MaxCalls
      /\ tm \in [Client -> 0 .. MaxNow + Horizon]
      /\ \A i \in DOMAIN table : DOMAIN table[i] = DOMAIN NoJob
  BY DEF TypeOK
<1>A. MaxNow \in Nat /\ Horizon \in Nat \ {0}
  BY ApiAssumption DEF ApiAssumption
<1>1. CASE Refuse(c)
  <2> DEFINE k == [call[c] EXCEPT !.pc = "reply", !.code = 400, !.from = now]
  <2>1. IsCall(k)
    BY <1>0 DEF IsCall, CallPc, NoCall
  <2>2. call' = [call EXCEPT ![c] = k] /\ UNCHANGED <<table, now, tm, calls>>
    BY <1>1 DEF Refuse
  <2> HIDE DEF k
  <2> QED
    BY <1>0, <2>1, <2>2, CallTypes DEF TypeOK
<1>2. CASE PlanRun(c)
  <2> DEFINE n == NextRunAfter(ScheduleOf(Asked(c)), now)
             k == [call[c] EXCEPT !.pc = "save", !.from = now, !.job.next_run_time = n]
  <2>1. IsCall(k)
    BY <1>0 DEF IsCall, CallPc, NoCall, NoJob, NewJob
  <2>2. call' = [call EXCEPT ![c] = k] /\ UNCHANGED <<table, now, tm, calls>>
    BY <1>2 DEF PlanRun
  <2> HIDE DEF k
  <2> QED
    BY <1>0, <2>1, <2>2, CallTypes DEF TypeOK
<1>3. CASE StartScan(c)
  <2> DEFINE k == [call[c] EXCEPT !.pc = "localtime", !.from = now,
                                  !.cand = FirstCandidate(now)]
  <2>1. IsCall(k)
    BY <1>0, <1>A DEF IsCall, CallPc, NoCall, FirstCandidate
  <2>2. call' = [call EXCEPT ![c] = k] /\ UNCHANGED <<table, now, tm, calls>>
    BY <1>3 DEF StartScan
  <2> HIDE DEF k
  <2> QED
    BY <1>0, <2>1, <2>2, CallTypes DEF TypeOK
<1>4. CASE LocalTime(c)
  <2> DEFINE k == [call[c] EXCEPT !.pc = "compare"]
  <2>1. IsCall(k)
    BY <1>0, <1>4 DEF IsCall, CallPc, NoCall, LocalTime
  <2>2. call' = [call EXCEPT ![c] = k] /\ UNCHANGED <<table, now, calls>>
    BY <1>0, <1>4 DEF LocalTime
  <2>3. call[c].cand \in 0 .. MaxNow + Horizon
    BY <1>0, <1>4, <1>A DEF IsCall, LocalTime
  <2>4. tm' \in [Client -> 0 .. MaxNow + Horizon]
    BY <1>0, <1>4, <2>3 DEF LocalTime
  <2> HIDE DEF k
  <2> QED
    BY <1>0, <2>1, <2>2, <2>4, CallTypes DEF TypeOK
<1>5. CASE CompareHit(c)
  <2> DEFINE k == [call[c] EXCEPT !.pc = "save", !.job.next_run_time = call[c].cand]
  <2>1. IsCall(k)
    BY <1>0 DEF IsCall, CallPc, NoCall, NoJob, NewJob
  <2>2. call' = [call EXCEPT ![c] = k] /\ UNCHANGED <<table, now, tm, calls>>
    BY <1>5 DEF CompareHit
  <2> HIDE DEF k
  <2> QED
    BY <1>0, <2>1, <2>2, CallTypes DEF TypeOK
<1>6. CASE CompareMiss(c) /\ call[c].cand < call[c].from + Horizon
  <2> DEFINE k == [call[c] EXCEPT !.pc = "localtime", !.cand = @ + 1]
  <2>1. IsCall(k)
    BY <1>0, <1>6, <1>A DEF IsCall, CallPc, NoCall, CompareMiss
  <2>2. call' = [call EXCEPT ![c] = k] /\ UNCHANGED <<table, now, tm, calls>>
    BY <1>0, <1>6 DEF CompareMiss
  <2> HIDE DEF k
  <2> QED
    BY <1>0, <2>1, <2>2, CallTypes DEF TypeOK
<1>7. CASE CompareMiss(c) /\ ~(call[c].cand < call[c].from + Horizon)
  <2>1. Reply(c, 400) /\ UNCHANGED <<table, now, tm, calls>>
    BY <1>7 DEF CompareMiss
  <2> QED
    BY <1>0, <2>1, ReplyTypes DEF TypeOK
<1>8. CASE Save(c)
  <2>1. PICK i \in Id :
          IF i \in DOMAIN table
          THEN Reply(c, 500) /\ UNCHANGED table
          ELSE /\ table' = [j \in DOMAIN table \cup {i} |->
                              IF j = i THEN ToRow(call[c].job) ELSE table[j]]
               /\ call' = [call EXCEPT ![c] =
                             [@ EXCEPT !.pc = "reply", !.code = 201, !.id = i]]
    BY <1>8 DEF Save
  <2>2. UNCHANGED <<now, tm, calls>>
    BY <1>8 DEF Save
  <2>3. CASE i \in DOMAIN table
    BY <1>0, <2>1, <2>2, <2>3, ReplyTypes DEF TypeOK
  <2>4. CASE i \notin DOMAIN table
    <3> DEFINE k == [call[c] EXCEPT !.pc = "reply", !.code = 201, !.id = i]
    <3>1. IsCall(k)
      BY <1>0 DEF IsCall, CallPc, NoCall
    <3>2. call' = [call EXCEPT ![c] = k]
      BY <2>1, <2>4
    <3>3. DOMAIN ToRow(call[c].job) = DOMAIN NoJob
      BY <1>0 DEF IsCall, ToRow
    <3>4. DOMAIN table' \subseteq Id /\ \A j \in DOMAIN table' : DOMAIN table'[j] = DOMAIN NoJob
      BY <1>0, <2>1, <2>4, <3>3
    <3> HIDE DEF k
    <3> QED
      BY <1>0, <2>2, <3>1, <3>2, <3>4, CallTypes DEF TypeOK
  <2> QED
    BY <2>3, <2>4
<1>9. ASSUME NEW route, NEW status, WriteStatus(c, route, status) PROVE TypeOK'
  <2>1. Reply(c, 200) /\ UNCHANGED <<now, tm, calls>>
    BY <1>9 DEF WriteStatus
  <2>2. DOMAIN table' \subseteq Id /\ \A j \in DOMAIN table' : DOMAIN table'[j] = DOMAIN NoJob
    BY <1>0, <1>9 DEF WriteStatus
  <2> QED
    BY <1>0, <2>1, <2>2, ReplyTypes DEF TypeOK
<1>10. CASE RemoveRow(c)
  <2>1. Reply(c, 204) /\ UNCHANGED <<now, tm, calls>>
    BY <1>10 DEF RemoveRow
  <2>2. DOMAIN table' \subseteq Id /\ \A j \in DOMAIN table' : DOMAIN table'[j] = DOMAIN NoJob
    BY <1>0, <1>10 DEF RemoveRow
  <2> QED
    BY <1>0, <2>1, <2>2, ReplyTypes DEF TypeOK
<1>11. CASE Answered(c)
  <2>1. IsCall(NoCall)
    BY <1>0, <1>A, IdleTypes
  <2>2. call' = [call EXCEPT ![c] = NoCall] /\ UNCHANGED <<table, now, tm, calls>>
    BY <1>11 DEF Answered
  <2> QED
    BY <1>0, <2>1, <2>2, CallTypes DEF TypeOK
<1> QED
  BY <1>1, <1>2, <1>3, <1>4, <1>5, <1>6, <1>7, <1>8, <1>9, <1>10, <1>11 DEF HandlerStep

\* An update of the executor leaves the columns of a row and its definition.
LEMMA ExecutedKeeps ==
  ASSUME NEW old, NEW row \in Executed(old), DOMAIN old = DOMAIN NoJob
  PROVE  /\ DOMAIN row = DOMAIN NoJob
         /\ row.schedule_type = old.schedule_type
         /\ row.schedule_expr = old.schedule_expr
         /\ Definition(row) = Definition(old)
<1>1. ASSUME NEW f \in {"status", "retry_count", "next_run_time"}, NEW v,
             row = [old EXCEPT ![f] = v]
      PROVE  /\ DOMAIN row = DOMAIN NoJob
             /\ \A g \in DOMAIN old \ {"status", "retry_count", "next_run_time"} : row[g] = old[g]
  BY <1>1
<1>2. \E f \in {"status", "retry_count", "next_run_time"} : \E v : row = [old EXCEPT ![f] = v]
  <2>1. \E v : \/ row = [old EXCEPT !.status = v]
               \/ row = [old EXCEPT !.retry_count = v]
               \/ row = [old EXCEPT !.next_run_time = v]
    BY DEF Executed
  <2> QED
    BY <2>1
<1>3. /\ DOMAIN row = DOMAIN NoJob
      /\ \A g \in DOMAIN old \ {"status", "retry_count", "next_run_time"} : row[g] = old[g]
  BY <1>1, <1>2
<1>4. {"schedule_type", "schedule_expr"} \subseteq DOMAIN old
  BY DEF NoJob, NewJob
<1> QED
  BY <1>3, <1>4 DEF Definition

LEMMA NextType ==
  ASSUME TypeOK, [Next]_vars
  PROVE  TypeOK'
<1>0. /\ \A c \in Client : IsCall(call[c])
      /\ DOMAIN call = Client
      /\ DOMAIN table \subseteq Id /\ now \in 0 .. MaxNow /\ calls \in 0 .. MaxCalls
      /\ tm \in [Client -> 0 .. MaxNow + Horizon]
      /\ \A i \in DOMAIN table : DOMAIN table[i] = DOMAIN NoJob
  BY DEF TypeOK
<1>A. MaxNow \in Nat /\ MaxCalls \in Nat
  BY ApiAssumption DEF ApiAssumption
<1>1. CASE Tick
  <2>1. now \in Nat /\ now' = now + 1 /\ now' \in 0 .. MaxNow
    BY <1>0, <1>1, <1>A DEF Tick
  <2>2. UNCHANGED <<table, tm, call, calls>>
    BY <1>1 DEF Tick
  <2>3. \A c \in Client : IsCall(call[c])'
    BY <1>0, <2>1, <2>2 DEF IsCall
  <2> QED
    BY <1>0, <2>1, <2>2, <2>3 DEF TypeOK
<1>2. CASE ExecutorWrites
  <2>1. UNCHANGED <<now, tm, call, calls>>
    BY <1>2 DEF ExecutorWrites
  <2>0. PICK i \in DOMAIN table : \E row \in Executed(table[i]) : table' = [table EXCEPT ![i] = row]
    BY <1>2 DEF ExecutorWrites
  <2>A. PICK row \in Executed(table[i]) : table' = [table EXCEPT ![i] = row]
    BY <2>0
  <2>B. DOMAIN row = DOMAIN NoJob
    BY <1>0, <2>A, ExecutedKeeps
  <2>2. DOMAIN table' \subseteq Id /\ \A j \in DOMAIN table' : DOMAIN table'[j] = DOMAIN NoJob
    BY <1>0, <2>A, <2>B
  <2>3. \A c \in Client : IsCall(call[c])'
    BY <1>0, <2>1 DEF IsCall
  <2> QED
    BY <1>0, <2>1, <2>2, <2>3 DEF TypeOK
<1>3. ASSUME NEW c \in Client, Arrives(c)
      PROVE  calls' \in 0 .. MaxCalls
  BY <1>0, <1>3, <1>A DEF Arrives
<1>4. ASSUME NEW c \in Client, Post(c)
      PROVE  TypeOK'
  <2>1. PICK o \in Objects :
          call' = [call EXCEPT ![c] = [NoCall EXCEPT !.pc = "posted", !.post = TRUE,
                                                     !.obj = o, !.job = NewJob(Request(o), 0)]]
    BY <1>4 DEF Post
  <2> DEFINE k == [NoCall EXCEPT !.pc = "posted", !.post = TRUE, !.obj = o,
                                 !.job = NewJob(Request(o), 0)]
  <2>2. DOMAIN NewJob(Request(o), 0) = DOMAIN NoJob
    BY DEF NewJob, NoJob
  <2>3. IsCall(NoCall)
    BY <1>0, <1>A, IdleTypes
  <2>4. IsCall(k)
    BY <2>2, <2>3 DEF IsCall, CallPc, NoCall
  <2>5. call' = [call EXCEPT ![c] = k] /\ UNCHANGED <<table, now, tm>>
    BY <1>4, <2>1 DEF Post
  <2> HIDE DEF k
  <2> QED
    BY <1>0, <1>3, <1>4, <2>4, <2>5, CallTypes DEF TypeOK, Post
<1>5. ASSUME NEW c \in Client, ListJobs(c)
      PROVE  TypeOK'
  <2>1. PICK code \in {200, 500} : Reply(c, code)
    BY <1>5 DEF ListJobs
  <2> QED
    BY <1>0, <1>3, <1>5, <2>1, ReplyTypes DEF TypeOK, ListJobs
<1>6. ASSUME NEW c \in Client, RouteById(c)
      PROVE  TypeOK'
  <2>1. PICK i \in Id, route \in {"get", "pause", "resume", "delete"} :
          IF Code(route, i) = 0
          THEN call' = [call EXCEPT ![c] = [@ EXCEPT !.pc = route, !.id = i]]
          ELSE Reply(c, Code(route, i))
    BY <1>6 DEF RouteById
  <2>2. UNCHANGED <<table, now, tm>> /\ Arrives(c)
    BY <1>6 DEF RouteById
  <2>3. Code(route, i) \in {0, 200, 400, 404, 500} /\ (Code(route, i) = 0 => route # "get")
    BY <2>1 DEF Code
  <2>4. CASE Code(route, i) = 0
    <3> DEFINE k == [call[c] EXCEPT !.pc = route, !.id = i]
    <3>1. IsCall(k)
      BY <1>0, <2>3, <2>4 DEF IsCall, CallPc, NoCall
    <3>2. call' = [call EXCEPT ![c] = k]
      BY <2>1, <2>4
    <3> HIDE DEF k
    <3> QED
      BY <1>0, <1>3, <2>2, <3>1, <3>2, CallTypes DEF TypeOK
  <2>5. CASE Code(route, i) # 0
    BY <1>0, <1>3, <2>1, <2>2, <2>3, <2>5, ReplyTypes DEF TypeOK
  <2> QED
    BY <2>4, <2>5
<1>7. ASSUME NEW c \in Client, HandlerStep(c)
      PROVE  TypeOK'
  BY <1>7, HandlerType
<1>8. CASE UNCHANGED vars
  BY <1>8 DEF TypeOK, IsCall, vars
<1> QED
  BY <1>1, <1>2, <1>4, <1>5, <1>6, <1>7, <1>8 DEF Next

(***************************************************************************)
(* Every variable always has its type, and the candidate of a scan stays   *)
(* within the horizon.                                                     *)
(***************************************************************************)
THEOREM ApiTypeCorrect == Spec => []TypeOK
<1>1. Init => TypeOK
  BY InitType
<1>2. TypeOK /\ [Next]_vars => TypeOK'
  BY NextType
<1> QED
  BY <1>1, <1>2, PTL DEF Spec

-----------------------------------------------------------------------------
(* Rows.                                                                   *)

\* What is saved has a schedule; only a POST is answered with 500.
CallSound(k) ==
  /\ k.pc \in {"posted", "localtime", "compare", "save"} => k.post
  /\ k.pc \in {"localtime", "compare", "save"} => ScheduleOf(k.job) # NoSchedule
  /\ k.code = 500 => k.post

\* Every row has the columns of a schedule that parsed.
RowSound(row) == RowForm(row.schedule_type, row.schedule_expr)

RowsOK ==
  /\ \A i \in DOMAIN table : RowSound(table[i])
  /\ \A c \in Client : CallSound(call[c])

\* One call changes, to a sound one.
LEMMA CallsSound ==
  ASSUME TypeOK, RowsOK, NEW c \in Client, NEW k,
         call' = [call EXCEPT ![c] = k], CallSound(k)
  PROVE  \A d \in Client : CallSound(call'[d])
<1>1. \A d \in Client : call'[d] = IF d = c THEN k ELSE call[d]
  BY DEF TypeOK
<1> QED
  BY <1>1 DEF RowsOK

\* A reply is sound, and one with 500 if it is a POST's.
LEMMA ReplySound ==
  ASSUME TypeOK, RowsOK, NEW c \in Client, NEW code, Reply(c, code),
         code = 500 => call[c].post
  PROVE  \A d \in Client : CallSound(call'[d])
<1> DEFINE k == [call[c] EXCEPT !.pc = "reply", !.code = code]
<1>1. IsCall(call[c]) /\ CallSound(call[c])
  BY DEF TypeOK, RowsOK
<1>2. CallSound(k)
  BY <1>1 DEF IsCall, NoCall, CallSound
<1>3. call' = [call EXCEPT ![c] = k]
  BY DEF Reply, TypeOK
<1> HIDE DEF k
<1> QED
  BY <1>2, <1>3, CallsSound

\* Rows that read: no route but a POST is answered with 500.
LEMMA RowsRead ==
  ASSUME RowsOK
  PROVE  \A i \in DOMAIN table : Reads(table[i])
BY FormReads DEF RowsOK, RowSound, Reads

LEMMA HandlerRows ==
  ASSUME TypeOK, RowsOK, NEW c \in Client, HandlerStep(c)
  PROVE  RowsOK'
<1>0. /\ IsCall(call[c]) /\ CallSound(call[c])
      /\ \A i \in DOMAIN table : RowSound(table[i])
      /\ \A i \in DOMAIN table : DOMAIN table[i] = DOMAIN NoJob
  BY DEF TypeOK, RowsOK
<1>1. CASE Refuse(c)
  <2> DEFINE k == [call[c] EXCEPT !.pc = "reply", !.code = 400, !.from = now]
  <2>1. CallSound(k)
    BY <1>0 DEF IsCall, NoCall, CallSound
  <2>2. call' = [call EXCEPT ![c] = k] /\ UNCHANGED table
    BY <1>1 DEF Refuse
  <2> HIDE DEF k
  <2> QED
    BY <1>0, <2>1, <2>2, CallsSound DEF RowsOK
<1>2. CASE PlanRun(c)
  <2> DEFINE n == NextRunAfter(ScheduleOf(Asked(c)), now)
             k == [call[c] EXCEPT !.pc = "save", !.from = now, !.job.next_run_time = n]
  <2>1. ScheduleOf(k.job) = ScheduleOf(call[c].job)
    BY <1>0 DEF IsCall, NoCall, NoJob, NewJob, ScheduleOf
  <2>2. ScheduleOf(call[c].job) # NoSchedule /\ call[c].pc = "posted"
    BY <1>2 DEF PlanRun, Refused, Asked
  <2>3. k.post = call[c].post /\ k.code = call[c].code /\ k.pc = "save"
    BY <1>0 DEF IsCall, NoCall
  <2>4. call' = [call EXCEPT ![c] = k] /\ UNCHANGED table
    BY <1>2 DEF PlanRun
  <2> HIDE DEF k
  <2>5. CallSound(k)
    BY <1>0, <2>1, <2>2, <2>3 DEF CallSound
  <2> QED
    BY <1>0, <2>4, <2>5, CallsSound DEF RowsOK
<1>3. CASE StartScan(c)
  <2> DEFINE k == [call[c] EXCEPT !.pc = "localtime", !.from = now,
                                  !.cand = FirstCandidate(now)]
  <2>1. ScheduleOf(call[c].job) # NoSchedule /\ call[c].pc = "posted"
    BY <1>3 DEF StartScan, Refused, Asked
  <2>2. CallSound(k)
    BY <1>0, <2>1 DEF IsCall, NoCall, CallSound
  <2>3. call' = [call EXCEPT ![c] = k] /\ UNCHANGED table
    BY <1>3 DEF StartScan
  <2> HIDE DEF k
  <2> QED
    BY <1>0, <2>2, <2>3, CallsSound DEF RowsOK
<1>4. CASE LocalTime(c)
  <2> DEFINE k == [call[c] EXCEPT !.pc = "compare"]
  <2>1. CallSound(k)
    BY <1>0, <1>4 DEF IsCall, NoCall, CallSound, LocalTime
  <2>2. call' = [call EXCEPT ![c] = k] /\ UNCHANGED table
    BY <1>4 DEF LocalTime, TypeOK
  <2> HIDE DEF k
  <2> QED
    BY <1>0, <2>1, <2>2, CallsSound DEF RowsOK
<1>5. CASE CompareHit(c)
  <2> DEFINE k == [call[c] EXCEPT !.pc = "save", !.job.next_run_time = call[c].cand]
  <2>1. ScheduleOf(k.job) = ScheduleOf(call[c].job)
    BY <1>0 DEF IsCall, NoCall, NoJob, NewJob, ScheduleOf
  <2>2. k.post = call[c].post /\ k.code = call[c].code /\ k.pc = "save"
    BY <1>0 DEF IsCall, NoCall
  <2>3. call' = [call EXCEPT ![c] = k] /\ UNCHANGED table /\ call[c].pc = "compare"
    BY <1>5 DEF CompareHit
  <2> HIDE DEF k
  <2>4. CallSound(k)
    BY <1>0, <2>1, <2>2, <2>3 DEF CallSound
  <2> QED
    BY <1>0, <2>3, <2>4, CallsSound DEF RowsOK
<1>6. CASE CompareMiss(c) /\ call[c].cand < call[c].from + Horizon
  <2> DEFINE k == [call[c] EXCEPT !.pc = "localtime", !.cand = @ + 1]
  <2>1. CallSound(k)
    BY <1>0, <1>6 DEF IsCall, NoCall, CallSound, CompareMiss
  <2>2. call' = [call EXCEPT ![c] = k] /\ UNCHANGED table
    BY <1>6 DEF CompareMiss, TypeOK
  <2> HIDE DEF k
  <2> QED
    BY <1>0, <2>1, <2>2, CallsSound DEF RowsOK
<1>7. CASE CompareMiss(c) /\ ~(call[c].cand < call[c].from + Horizon)
  <2>1. Reply(c, 400) /\ UNCHANGED table
    BY <1>7 DEF CompareMiss
  <2> QED
    BY <1>0, <2>1, ReplySound DEF RowsOK
<1>8. CASE Save(c)
  <2>1. PICK i \in Id :
          IF i \in DOMAIN table
          THEN Reply(c, 500) /\ UNCHANGED table
          ELSE /\ table' = [j \in DOMAIN table \cup {i} |->
                              IF j = i THEN ToRow(call[c].job) ELSE table[j]]
               /\ call' = [call EXCEPT ![c] =
                             [@ EXCEPT !.pc = "reply", !.code = 201, !.id = i]]
    BY <1>8 DEF Save
  <2>2. call[c].post /\ ScheduleOf(call[c].job) # NoSchedule
    BY <1>0, <1>8 DEF CallSound, Save
  <2>3. CASE i \in DOMAIN table
    BY <1>0, <2>1, <2>2, <2>3, ReplySound DEF RowsOK
  <2>4. CASE i \notin DOMAIN table
    <3> DEFINE k == [call[c] EXCEPT !.pc = "reply", !.code = 201, !.id = i]
               s == ScheduleOf(call[c].job)
    <3>1. CallSound(k)
      BY <1>0 DEF IsCall, NoCall, CallSound
    <3>2. call' = [call EXCEPT ![c] = k]
      BY <2>1, <2>4
    <3>3. /\ ToRow(call[c].job).schedule_type = Type(s)
          /\ ToRow(call[c].job).schedule_expr = Serialize(s)
      BY <1>0 DEF IsCall, ToRow, NoJob, NewJob
    <3>4. RowForm(Type(s), Serialize(s))
      BY <2>2, ParsedForm DEF ScheduleOf
    <3>5. RowSound(ToRow(call[c].job))
      BY <3>3, <3>4 DEF RowSound
    <3>6. \A j \in DOMAIN table' : RowSound(table'[j])
      BY <1>0, <2>1, <2>4, <3>5
    <3> HIDE DEF k
    <3> QED
      BY <3>1, <3>2, <3>6, CallsSound DEF RowsOK
  <2> QED
    BY <2>3, <2>4
<1>9. ASSUME NEW route \in {"pause", "resume"}, NEW status, WriteStatus(c, route, status)
      PROVE  RowsOK'
  <2>1. Reply(c, 200)
    BY <1>9 DEF WriteStatus
  <2>2. \A j \in DOMAIN table' : RowSound(table'[j])
    BY <1>0, <1>9 DEF WriteStatus, RowSound, NoJob, NewJob
  <2> QED
    BY <2>1, <2>2, ReplySound DEF RowsOK
<1>10. CASE RemoveRow(c)
  <2>1. Reply(c, 204)
    BY <1>10 DEF RemoveRow
  <2>2. \A j \in DOMAIN table' : RowSound(table'[j])
    BY <1>0, <1>10 DEF RemoveRow
  <2> QED
    BY <2>1, <2>2, ReplySound DEF RowsOK
<1>11. CASE Answered(c)
  <2>1. CallSound(NoCall)
    BY DEF CallSound, NoCall
  <2>2. call' = [call EXCEPT ![c] = NoCall] /\ UNCHANGED table
    BY <1>11 DEF Answered
  <2> QED
    BY <1>0, <2>1, <2>2, CallsSound DEF RowsOK
<1> QED
  BY <1>1, <1>2, <1>3, <1>4, <1>5, <1>6, <1>7, <1>8, <1>9, <1>10, <1>11 DEF HandlerStep

LEMMA NextRows ==
  ASSUME TypeOK, RowsOK, [Next]_vars
  PROVE  RowsOK'
<1>0. /\ \A c \in Client : IsCall(call[c]) /\ CallSound(call[c])
      /\ \A i \in DOMAIN table : RowSound(table[i])
      /\ \A i \in DOMAIN table : DOMAIN table[i] = DOMAIN NoJob
  BY DEF TypeOK, RowsOK
<1>1. CASE Tick
  BY <1>1 DEF Tick, RowsOK
<1>2. CASE ExecutorWrites
  <2>0. PICK i \in DOMAIN table : \E row \in Executed(table[i]) : table' = [table EXCEPT ![i] = row]
    BY <1>2 DEF ExecutorWrites
  <2>A. PICK row \in Executed(table[i]) : table' = [table EXCEPT ![i] = row]
    BY <2>0
  <2>B. RowSound(row)
    BY <1>0, <2>A, ExecutedKeeps DEF RowSound
  <2>1. \A j \in DOMAIN table' : RowSound(table'[j])
    BY <1>0, <2>A, <2>B
  <2> QED
    BY <1>2, <2>1 DEF ExecutorWrites, RowsOK
<1>3. ASSUME NEW c \in Client, Post(c)
      PROVE  RowsOK'
  <2>1. PICK o \in Objects :
          call' = [call EXCEPT ![c] = [NoCall EXCEPT !.pc = "posted", !.post = TRUE,
                                                     !.obj = o, !.job = NewJob(Request(o), 0)]]
    BY <1>3 DEF Post
  <2> DEFINE k == [NoCall EXCEPT !.pc = "posted", !.post = TRUE, !.obj = o,
                                 !.job = NewJob(Request(o), 0)]
  <2>2. CallSound(k)
    BY DEF CallSound, NoCall
  <2>3. call' = [call EXCEPT ![c] = k] /\ UNCHANGED table
    BY <1>3, <2>1 DEF Post
  <2> HIDE DEF k
  <2> QED
    BY <2>2, <2>3, CallsSound DEF RowsOK
<1>4. ASSUME NEW c \in Client, ListJobs(c)
      PROVE  RowsOK'
  <2>1. Reply(c, 200) /\ UNCHANGED table
    BY <1>4, RowsRead DEF ListJobs
  <2> QED
    BY <2>1, ReplySound DEF RowsOK
<1>5. ASSUME NEW c \in Client, RouteById(c)
      PROVE  RowsOK'
  <2>1. PICK i \in Id, route \in {"get", "pause", "resume", "delete"} :
          IF Code(route, i) = 0
          THEN call' = [call EXCEPT ![c] = [@ EXCEPT !.pc = route, !.id = i]]
          ELSE Reply(c, Code(route, i))
    BY <1>5 DEF RouteById
  <2>2. UNCHANGED table
    BY <1>5 DEF RouteById
  <2>3. Code(route, i) # 500
    BY RowsRead DEF Code
  <2>4. CASE Code(route, i) = 0
    <3> DEFINE k == [call[c] EXCEPT !.pc = route, !.id = i]
    <3>1. CallSound(k)
      BY <1>0 DEF IsCall, NoCall, CallSound
    <3>2. call' = [call EXCEPT ![c] = k]
      BY <2>1, <2>4
    <3> HIDE DEF k
    <3> QED
      BY <1>0, <2>2, <3>1, <3>2, CallsSound DEF RowsOK
  <2>5. CASE Code(route, i) # 0
    BY <2>1, <2>2, <2>3, <2>5, ReplySound DEF RowsOK
  <2> QED
    BY <2>4, <2>5
<1>6. ASSUME NEW c \in Client, HandlerStep(c)
      PROVE  RowsOK'
  BY <1>6, HandlerRows
<1>7. CASE UNCHANGED vars
  BY <1>7 DEF RowsOK, vars
<1> QED
  BY <1>1, <1>2, <1>3, <1>4, <1>5, <1>6, <1>7 DEF Next

LEMMA RowsAlways == Spec => []RowsOK
<1>1. ASSUME Init
      PROVE  RowsOK
  <2>1. CallSound(NoCall)
    BY DEF CallSound, NoCall
  <2>2. DOMAIN table = {} /\ \A c \in Client : call[c] = NoCall
    BY <1>1 DEF Init
  <2> QED
    BY <2>1, <2>2 DEF RowsOK
<1>2. TypeOK /\ RowsOK /\ [Next]_vars => RowsOK'
  BY NextRows
<1> QED
  BY <1>1, <1>2, ApiTypeCorrect, PTL DEF Spec

(***************************************************************************)
(* No request stores a row that does not read, and so no list, get, pause, *)
(* resume or delete is answered with 500.                                  *)
(***************************************************************************)
THEOREM RowsNeverFail == Spec => []ReadsNeverFail
<1>1. RowsOK => ReadsNeverFail
  BY DEF RowsOK, ReadsNeverFail, CallSound
<1> QED
  BY <1>1, RowsAlways, PTL

(***************************************************************************)
(* execute and the repository read the same schedule from a row whose type *)
(* the parser knows and whose period is positive.                          *)
(***************************************************************************)
THEOREM RowsRebuild == Spec => []RebuiltFromRow
<1>1. RowsOK => RebuiltFromRow
  BY FormReads DEF RowsOK, RowSound, RebuiltFromRow
<1> QED
  BY <1>1, RowsAlways, PTL

\* A status is no part of a job's definition.
LEMMA StatusOnly ==
  ASSUME NEW row, NEW status
  PROVE  Definition([row EXCEPT !.status = status]) = Definition(row)
<1>1. \A f \in DOMAIN row \ {"status"} : [row EXCEPT !.status = status][f] = row[f]
  OBVIOUS
<1> QED
  BY <1>1 DEF Definition

(***************************************************************************)
(* No step of any thread changes what a stored job was created with, its   *)
(* name, schedule, target and retry policy, whatever ids are drawn.        *)
(***************************************************************************)
THEOREM StoredIsFinal == Spec => DefinitionIsFinal
<1> DEFINE Kept == \A i \in DOMAIN table \cap DOMAIN table' :
                      Definition(table'[i]) = Definition(table[i])
<1>1. ASSUME UNCHANGED table
      PROVE  Kept
  BY <1>1
<1>2. ASSUME TypeOK, ExecutorWrites
      PROVE  Kept
  <2>0. PICK k \in DOMAIN table : \E row \in Executed(table[k]) : table' = [table EXCEPT ![k] = row]
    BY <1>2 DEF ExecutorWrites
  <2>1. PICK row \in Executed(table[k]) : table' = [table EXCEPT ![k] = row]
    BY <2>0
  <2>2. Definition(row) = Definition(table[k])
    BY <1>2, <2>1, ExecutedKeeps DEF TypeOK
  <2>3. \A i \in DOMAIN table : table'[i] = IF i = k THEN row ELSE table[i]
    BY <2>1
  <2> QED
    BY <2>2, <2>3
<1>3. ASSUME NEW c \in Client, HandlerStep(c)
      PROVE  Kept
  <2>1. CASE Save(c)
    <3>1. PICK i \in Id :
            \/ UNCHANGED table
            \/ /\ i \notin DOMAIN table
               /\ table' = [j \in DOMAIN table \cup {i} |->
                              IF j = i THEN ToRow(call[c].job) ELSE table[j]]
      BY <2>1 DEF Save
    <3> QED
      BY <3>1
  <2>2. ASSUME NEW route, NEW status, WriteStatus(c, route, status)
        PROVE  Kept
    BY <2>2, StatusOnly DEF WriteStatus
  <2>3. CASE RemoveRow(c)
    BY <2>3 DEF RemoveRow
  <2>4. CASE \/ Refuse(c) \/ PlanRun(c) \/ StartScan(c) \/ LocalTime(c)
            \/ CompareHit(c) \/ CompareMiss(c) \/ Answered(c)
    <3>1. UNCHANGED table
      BY <2>4 DEF Refuse, PlanRun, StartScan, LocalTime, CompareHit, CompareMiss, Answered
    <3> QED
      BY <1>1, <3>1
  <2> QED
    BY <1>3, <2>1, <2>2, <2>3, <2>4 DEF HandlerStep
<1>4. ASSUME Tick \/ \E c \in Client : Post(c) \/ ListJobs(c) \/ RouteById(c)
      PROVE  Kept
  <2>1. UNCHANGED table
    BY <1>4 DEF Tick, Post, ListJobs, RouteById
  <2> QED
    BY <1>1, <2>1
<1> HIDE DEF Kept
<1>5. TypeOK /\ Next => Kept
  BY <1>2, <1>3, <1>4 DEF Next
<1>6. TypeOK /\ [Next]_vars => [Kept]_vars
  BY <1>5
<1> USE DEF Kept
<1> QED
  BY <1>6, ApiTypeCorrect, PTL DEF Spec, DefinitionIsFinal

-----------------------------------------------------------------------------
(* Runs.                                                                   *)

\* What create_job accepts: HasRun, but with more than five fields as well.
Runs(type, expr, from) ==
  \/ HasRun(type, expr, from)
  \/ /\ type = <<"cron">>
     /\ Len(expr) >= 5
     /\ \A i \in 1 .. 5 : CronWord(expr[i])
     /\ MatchesAfter(expr, from) # {}

\* What create_job accepts, and the two promises about its run time.
Fit(job, from) ==
  /\ job.name # <<>> /\ job.execution_target # <<>>
  /\ Runs(job.schedule_type, job.schedule_expr, from)

IsFirst(job, from) ==
  job.schedule_type = <<"cron">> =>
    /\ job.next_run_time \in MatchesAfter(job.schedule_expr, from)
    /\ \A m \in MatchesAfter(job.schedule_expr, from) : job.next_run_time <= m

IsLater(job, from) ==
  \/ job.next_run_time > from
  \/ job.schedule_type = <<"interval">> /\ Value(job.schedule_expr) > IntMax

\* A scan that has come to cand: no minute before it matches.
Scanning(job, from, cand) ==
  /\ job.name # <<>> /\ job.execution_target # <<>>
  /\ job.schedule_type = <<"cron">>
  /\ ParseCron(job.schedule_expr) # NoSchedule
  /\ from \in Nat /\ cand \in from + 1 .. from + Horizon
  /\ \A m \in from + 1 .. cand - 1 : ~Matches(Local[m], job.schedule_expr)

\* A call k of a thread whose localtime buffer holds minute t.
CallRight(k, t) ==
  /\ k.pc \in {"idle", "pause", "resume", "delete"} => ~k.post
  /\ k.pc \in {"localtime", "compare"} => Scanning(k.job, k.from, k.cand)
  /\ k.pc = "compare" => t = k.cand
  /\ k.pc = "save" => /\ Fit(k.job, k.from)
                      /\ IsFirst(k.job, k.from)
                      /\ IsLater(k.job, k.from)
  /\ k.pc = "reply" /\ k.post /\ k.code # 500 => (k.code = 201 <=> Fit(k.job, k.from))

RunsOK == \A c \in Client : CallRight(call[c], tm[c])

\* A cron expression parses if and only if its first five words convert.
LEMMA CronParses ==
  ASSUME NEW expr
  PROVE  ParseCron(expr) # NoSchedule <=>
           Len(expr) >= 5 /\ \A i \in 1 .. 5 : CronWord(expr[i])
BY DEF ParseCron, NoSchedule

\* What is refused before a scan has no run.
LEMMA RefusedUnfit ==
  ASSUME now \in Nat, NEW job, Refused(job)
  PROVE  ~Fit(job, now)
<1> DEFINE type == job.schedule_type
           expr == job.schedule_expr
<1>0. /\ <<"one_time">> # <<"interval">> /\ <<"one_time">> # <<"cron">>
      /\ <<"interval">> # <<"cron">>
  OBVIOUS
<1>1. CASE job.name = <<>> \/ job.execution_target = <<>>
  BY <1>1 DEF Fit
<1>2. CASE ScheduleOf(job) = NoSchedule
  <2>1. Parse(type, expr) = NoSchedule
    BY <1>2 DEF ScheduleOf
  <2>2. ASSUME type = <<"one_time">> PROVE ~(StollReads(expr) /\ Value(expr) > now)
    <3>1. ParseOneTime(expr) = NoSchedule
      BY <2>1, <2>2 DEF Parse
    <3>2. ~(StollReads(expr) /\ Value(expr) > 0)
      BY <3>1 DEF ParseOneTime, NoSchedule
    <3>3. StollReads(expr) => Value(expr) \in Int
      BY WordsAssumption DEF StollReads, Value, WordsAssumption
    <3> QED
      BY <3>2, <3>3
  <2>3. ASSUME type = <<"interval">> PROVE ~(StollReads(expr) /\ Value(expr) > 0)
    <3>1. ParseInterval(expr) = NoSchedule
      BY <1>0, <2>1, <2>3 DEF Parse
    <3> QED
      BY <3>1 DEF ParseInterval, NoSchedule
  <2>4. ASSUME type = <<"cron">> PROVE ParseCron(expr) = NoSchedule
    BY <1>0, <2>1, <2>4 DEF Parse
  <2> QED
    BY <2>2, <2>3, <2>4, CronParses DEF Fit, Runs, HasRun
<1>3. CASE /\ ScheduleOf(job) # NoSchedule
           /\ ScheduleOf(job).class = "one_time"
           /\ NextRunAfter(ScheduleOf(job), now) = NoTime
  <2>1. /\ type = <<"one_time">> /\ StollReads(expr) /\ Value(expr) > 0
        /\ ScheduleOf(job) = [class |-> "one_time", data |-> <<Numeral(Value(expr))>>]
    BY <1>3, ParsedClass DEF ScheduleOf
  <2>2. Value(<<Numeral(Value(expr))>>) = Value(expr) /\ Value(expr) \in Int
    BY <2>1, NumeralReads, WordsAssumption DEF StollReads, Value, WordsAssumption
  <2>3. ~(now < Value(expr))
    BY <1>3, <2>1, <2>2 DEF NextRunAfter, NoTime
  <2> QED
    BY <1>0, <2>1, <2>2, <2>3 DEF Fit, Runs, HasRun
<1> QED
  BY <1>1, <1>2, <1>3 DEF Refused

\* What is planned without a scan has a run, and a later one.
LEMMA PlannedFit ==
  ASSUME now \in Nat, NEW job, ~Refused(job), ScheduleOf(job).class # "cron"
  PROVE  /\ Fit(job, now)
         /\ job.schedule_type # <<"cron">>
         /\ \/ NextRunAfter(ScheduleOf(job), now) > now
            \/ job.schedule_type = <<"interval">> /\ Value(job.schedule_expr) > IntMax
<1> DEFINE expr == job.schedule_expr
           n == Value(expr)
<1>0. /\ <<"one_time">> # <<"cron">> /\ <<"interval">> # <<"cron">>
      /\ IntMax \in Nat
  BY WordsAssumption DEF WordsAssumption
<1>1. /\ ScheduleOf(job) # NoSchedule
      /\ job.name # <<>> /\ job.execution_target # <<>>
      /\ ScheduleOf(job).class = "one_time" => NextRunAfter(ScheduleOf(job), now) # NoTime
  BY DEF Refused
<1>2. StollReads(expr) => n \in Int /\ Number[Numeral(n)] = n
  BY NumeralReads, WordsAssumption DEF StollReads, Value, WordsAssumption
<1>3. CASE /\ job.schedule_type = <<"one_time">> /\ StollReads(expr) /\ n > 0
           /\ ScheduleOf(job) = [class |-> "one_time", data |-> <<Numeral(n)>>]
  <2>1. Value(<<Numeral(n)>>) = n
    BY <1>2, <1>3 DEF Value
  <2>2. now < n /\ NextRunAfter(ScheduleOf(job), now) = n
    BY <1>1, <1>3, <2>1 DEF NextRunAfter
  <2> QED
    BY <1>0, <1>1, <1>2, <1>3, <2>2 DEF Fit, Runs, HasRun
<1>4. CASE /\ job.schedule_type = <<"interval">> /\ StollReads(expr) /\ n > 0
           /\ ScheduleOf(job) = [class |-> "interval", data |-> <<Numeral(ToInt(n))>>]
  <2>1. Value(<<Numeral(ToInt(n))>>) = ToInt(n)
    <3>1. ToInt(n) \in Int32
      BY <1>2, <1>4, ToIntInt
    <3> QED
      BY <3>1, IntNumeral DEF Value
  <2>2. NextRunAfter(ScheduleOf(job), now) = now + ToInt(n)
    BY <1>4, <2>1 DEF NextRunAfter
  <2>3. ASSUME n <= IntMax PROVE NextRunAfter(ScheduleOf(job), now) > now
    <3>1. n \in Int32
      BY <1>0, <1>2, <1>4, <2>3 DEF Int32
    <3>2. ToInt(n) = n
      BY <1>2, <1>4, <3>1, ToIntInt
    <3> QED
      BY <1>2, <1>4, <2>2, <3>2
  <2> QED
    BY <1>0, <1>1, <1>2, <1>4, <2>3 DEF Fit, Runs, HasRun
<1> QED
  BY <1>1, <1>3, <1>4, ParsedClass DEF ScheduleOf

\* A scan starts where a cron job is not refused.
LEMMA ScanStarts ==
  ASSUME now \in Nat, NEW job, ~Refused(job), ScheduleOf(job).class = "cron"
  PROVE  Scanning(job, now, FirstCandidate(now))
<1>1. ScheduleOf(job) # NoSchedule /\ job.name # <<>> /\ job.execution_target # <<>>
  BY DEF Refused
<1>2. job.schedule_type = <<"cron">> /\ ParseCron(job.schedule_expr) # NoSchedule
  BY <1>1, ParsedClass DEF ScheduleOf
<1>3. Horizon \in Nat \ {0}
  BY ApiAssumption DEF ApiAssumption
<1> QED
  BY <1>1, <1>2, <1>3 DEF Scanning, FirstCandidate

\* A scan that finds a match has found the first, and the job has a run.
LEMMA ScanHits ==
  ASSUME NEW job, NEW from, NEW cand, Scanning(job, from, cand),
         Matches(Local[cand], job.schedule_expr)
  PROVE  /\ Fit(job, from)
         /\ cand \in MatchesAfter(job.schedule_expr, from)
         /\ \A m \in MatchesAfter(job.schedule_expr, from) : cand <= m
         /\ cand > from
<1>A. from \in Nat /\ cand \in from + 1 .. from + Horizon
  BY DEF Scanning
<1>0. Horizon \in Nat \ {0} /\ from \in Nat /\ cand \in Nat /\ cand > from
  BY <1>A, ApiAssumption DEF ApiAssumption
<1>1. cand \in MatchesAfter(job.schedule_expr, from)
  BY <1>0 DEF Scanning, MatchesAfter
<1>2. \A m \in MatchesAfter(job.schedule_expr, from) : cand <= m
  BY <1>0 DEF Scanning, MatchesAfter
<1>3. Fit(job, from)
  BY <1>1, CronParses DEF Scanning, Fit, Runs, HasRun
<1> QED
  BY <1>0, <1>1, <1>2, <1>3

\* A scan that has tried the last candidate in vain shows that there is no run.
LEMMA ScanEnds ==
  ASSUME NEW job, NEW from, NEW cand, Scanning(job, from, cand),
         ~Matches(Local[cand], job.schedule_expr), ~(cand < from + Horizon)
  PROVE  ~Fit(job, from)
<1>A. from \in Nat /\ cand \in from + 1 .. from + Horizon
  BY DEF Scanning
<1>0. Horizon \in Nat \ {0} /\ from \in Nat /\ cand = from + Horizon
  BY <1>A, ApiAssumption DEF ApiAssumption
<1>1. MatchesAfter(job.schedule_expr, from) = {}
  BY <1>0 DEF Scanning, MatchesAfter
<1>2. <<"one_time">> # <<"cron">> /\ <<"interval">> # <<"cron">>
  OBVIOUS
<1> QED
  BY <1>1, <1>2 DEF Scanning, Fit, Runs, HasRun

\* One call and its thread's buffer change.
LEMMA CallsRight ==
  ASSUME TypeOK, RunsOK, NEW c \in Client, NEW k,
         call' = [call EXCEPT ![c] = k], CallRight(k, tm'[c]),
         \A d \in Client : d # c => tm'[d] = tm[d]
  PROVE  RunsOK'
<1>1. \A d \in Client : call'[d] = IF d = c THEN k ELSE call[d]
  BY DEF TypeOK
<1> QED
  BY <1>1 DEF RunsOK

\* A reply to anything but a POST.
LEMMA OtherReply ==
  ASSUME TypeOK, RunsOK, NEW c \in Client, NEW code, Reply(c, code),
         call[c].pc \in {"idle", "pause", "resume", "delete"}, UNCHANGED tm
  PROVE  RunsOK'
<1> DEFINE k == [call[c] EXCEPT !.pc = "reply", !.code = code]
<1>1. IsCall(call[c]) /\ CallRight(call[c], tm[c])
  BY DEF TypeOK, RunsOK
<1>2. CallRight(k, tm[c])
  BY <1>1 DEF IsCall, NoCall, CallRight
<1>3. call' = [call EXCEPT ![c] = k]
  BY DEF Reply, TypeOK
<1> HIDE DEF k
<1> QED
  BY <1>2, <1>3, CallsRight

LEMMA HandlerRuns ==
  ASSUME SharedTm = FALSE, TypeOK, RunsOK, NEW c \in Client, HandlerStep(c)
  PROVE  RunsOK'
<1>0. /\ IsCall(call[c]) /\ CallRight(call[c], tm[c])
      /\ DOMAIN call[c] = DOMAIN NoCall /\ DOMAIN call[c].job = DOMAIN NoJob
      /\ tm \in [Client -> 0 .. MaxNow + Horizon] /\ now \in Nat
      /\ \A d \in Client : tm[d] = tm[d]
  BY ApiAssumption DEF TypeOK, RunsOK, IsCall, ApiAssumption
<1>1. CASE Refuse(c)
  <2> DEFINE k == [call[c] EXCEPT !.pc = "reply", !.code = 400, !.from = now]
  <2>1. k.pc = "reply" /\ k.code = 400 /\ k.from = now /\ k.job = call[c].job
    BY <1>0 DEF NoCall
  <2>2. ~Fit(call[c].job, now)
    BY <1>0, <1>1, RefusedUnfit DEF Refuse, Asked
  <2>3. call' = [call EXCEPT ![c] = k] /\ UNCHANGED tm
    BY <1>1 DEF Refuse
  <2> HIDE DEF k
  <2>4. CallRight(k, tm'[c])
    BY <2>1, <2>2 DEF CallRight
  <2> QED
    BY <2>3, <2>4, CallsRight
<1>2. CASE PlanRun(c)
  <2> DEFINE job == call[c].job
  <2>1. ~Refused(job) /\ ScheduleOf(job).class # "cron"
    BY <1>2 DEF PlanRun, Asked
  <2> HIDE DEF job
  <2>2. /\ Fit(job, now)
        /\ job.schedule_type # <<"cron">>
        /\ \/ NextRunAfter(ScheduleOf(job), now) > now
           \/ job.schedule_type = <<"interval">> /\ Value(job.schedule_expr) > IntMax
    BY <1>0, <2>1, PlannedFit
  <2> USE DEF job
  <2> DEFINE n == NextRunAfter(ScheduleOf(job), now)
             k == [call[c] EXCEPT !.pc = "save", !.from = now, !.job.next_run_time = n]
  <2>3. /\ k.pc = "save" /\ k.from = now /\ k.job.next_run_time = n
        /\ k.job.name = job.name /\ k.job.execution_target = job.execution_target
        /\ k.job.schedule_type = job.schedule_type
        /\ k.job.schedule_expr = job.schedule_expr
    BY <1>0 DEF NoCall, NoJob, NewJob
  <2>4. call' = [call EXCEPT ![c] = k] /\ UNCHANGED tm
    BY <1>2 DEF PlanRun, Asked
  <2> HIDE DEF k, job
  <2>5. Fit(k.job, k.from) /\ IsFirst(k.job, k.from) /\ IsLater(k.job, k.from)
    BY <2>2, <2>3 DEF Fit, IsFirst, IsLater
  <2>6. CallRight(k, tm'[c])
    BY <2>3, <2>5 DEF CallRight
  <2> QED
    BY <2>4, <2>6, CallsRight
<1>3. CASE StartScan(c)
  <2> DEFINE k == [call[c] EXCEPT !.pc = "localtime", !.from = now,
                                  !.cand = FirstCandidate(now)]
  <2>1. /\ k.pc = "localtime" /\ k.from = now /\ k.cand = FirstCandidate(now)
        /\ k.job = call[c].job
    BY <1>0 DEF NoCall
  <2>2. Scanning(call[c].job, now, FirstCandidate(now))
    BY <1>0, <1>3, ScanStarts DEF StartScan, Asked
  <2>3. call' = [call EXCEPT ![c] = k] /\ UNCHANGED tm
    BY <1>3 DEF StartScan
  <2> HIDE DEF k
  <2>4. CallRight(k, tm'[c])
    BY <2>1, <2>2 DEF CallRight
  <2> QED
    BY <2>3, <2>4, CallsRight
<1>4. CASE LocalTime(c)
  <2> DEFINE k == [call[c] EXCEPT !.pc = "compare"]
  <2>1. /\ k.pc = "compare" /\ k.from = call[c].from /\ k.cand = call[c].cand
        /\ k.job = call[c].job
    BY <1>0 DEF NoCall
  <2>2. Scanning(call[c].job, call[c].from, call[c].cand)
    BY <1>0, <1>4 DEF LocalTime, CallRight
  <2>3. call' = [call EXCEPT ![c] = k]
    BY <1>4 DEF LocalTime, TypeOK
  <2>4. tm' = [d \in Client |-> IF d = c THEN call[c].cand ELSE tm[d]]
    BY <1>4 DEF LocalTime
  <2> HIDE DEF k
  <2>5. CallRight(k, tm'[c])
    BY <2>1, <2>2, <2>4 DEF CallRight
  <2> QED
    BY <2>3, <2>4, <2>5, CallsRight
<1>5. CASE CompareHit(c)
  <2> DEFINE job == call[c].job
             k == [call[c] EXCEPT !.pc = "save", !.job.next_run_time = call[c].cand]
  <2>1. /\ k.pc = "save" /\ k.from = call[c].from /\ k.job.next_run_time = call[c].cand
        /\ k.job.name = job.name /\ k.job.execution_target = job.execution_target
        /\ k.job.schedule_type = job.schedule_type
        /\ k.job.schedule_expr = job.schedule_expr
    BY <1>0 DEF NoCall, NoJob, NewJob
  <2>2. /\ Scanning(job, call[c].from, call[c].cand)
        /\ Matches(Local[call[c].cand], job.schedule_expr)
    BY <1>0, <1>5 DEF CompareHit, CallRight, Found
  <2>3. /\ Fit(job, call[c].from)
        /\ call[c].cand \in MatchesAfter(job.schedule_expr, call[c].from)
        /\ \A m \in MatchesAfter(job.schedule_expr, call[c].from) : call[c].cand <= m
        /\ call[c].cand > call[c].from
    BY <2>2, ScanHits
  <2>4. call' = [call EXCEPT ![c] = k] /\ UNCHANGED tm
    BY <1>5 DEF CompareHit
  <2> HIDE DEF k, job
  <2>5. Fit(k.job, k.from) /\ IsFirst(k.job, k.from) /\ IsLater(k.job, k.from)
    BY <2>1, <2>3 DEF Fit, IsFirst, IsLater
  <2>6. CallRight(k, tm'[c])
    BY <2>1, <2>5 DEF CallRight
  <2> QED
    BY <2>4, <2>6, CallsRight
<1>6. CASE CompareMiss(c)
  <2>0. /\ Scanning(call[c].job, call[c].from, call[c].cand)
        /\ ~Matches(Local[call[c].cand], call[c].job.schedule_expr)
    BY <1>0, <1>6 DEF CompareMiss, CallRight, Found
  <2>A. UNCHANGED tm
    BY <1>6 DEF CompareMiss
  <2>1. CASE call[c].cand < call[c].from + Horizon
    <3> DEFINE k == [call[c] EXCEPT !.pc = "localtime", !.cand = @ + 1]
    <3>1. /\ k.pc = "localtime" /\ k.from = call[c].from /\ k.cand = call[c].cand + 1
          /\ k.job = call[c].job
      BY <1>0 DEF NoCall
    <3>2. Scanning(call[c].job, call[c].from, call[c].cand + 1)
      <4>1. /\ call[c].from \in Nat /\ Horizon \in Nat
            /\ call[c].cand \in call[c].from + 1 .. call[c].from + Horizon
        BY <2>0, ApiAssumption DEF Scanning, ApiAssumption
      <4>2. /\ call[c].cand + 1 \in call[c].from + 1 .. call[c].from + Horizon
            /\ \A m \in call[c].from + 1 .. call[c].cand + 1 - 1 :
                 m = call[c].cand \/ m \in call[c].from + 1 .. call[c].cand - 1
        BY <2>1, <4>1
      <4> QED
        BY <2>0, <4>2 DEF Scanning
    <3>3. call' = [call EXCEPT ![c] = k]
      BY <1>6, <2>1 DEF CompareMiss, TypeOK
    <3> HIDE DEF k
    <3>4. CallRight(k, tm'[c])
      BY <3>1, <3>2 DEF CallRight
    <3> QED
      BY <2>A, <3>3, <3>4, CallsRight
  <2>2. CASE ~(call[c].cand < call[c].from + Horizon)
    <3> DEFINE k == [call[c] EXCEPT !.pc = "reply", !.code = 400]
    <3>1. k.pc = "reply" /\ k.code = 400 /\ k.from = call[c].from /\ k.job = call[c].job
      BY <1>0 DEF NoCall
    <3>2. ~Fit(call[c].job, call[c].from)
      BY <2>0, <2>2, ScanEnds
    <3>3. call' = [call EXCEPT ![c] = k]
      BY <1>6, <2>2 DEF CompareMiss, Reply, TypeOK
    <3> HIDE DEF k
    <3>4. CallRight(k, tm'[c])
      BY <3>1, <3>2 DEF CallRight
    <3> QED
      BY <2>A, <3>3, <3>4, CallsRight
  <2> QED
    BY <2>1, <2>2
<1>7. CASE Save(c)
  <2>0. Fit(call[c].job, call[c].from)
    BY <1>0, <1>7 DEF Save, CallRight
  <2>1. PICK i \in Id :
          \/ Reply(c, 500)
          \/ call' = [call EXCEPT ![c] = [@ EXCEPT !.pc = "reply", !.code = 201, !.id = i]]
    BY <1>7 DEF Save
  <2>2. UNCHANGED tm
    BY <1>7 DEF Save
  <2>3. CASE Reply(c, 500)
    <3> DEFINE k == [call[c] EXCEPT !.pc = "reply", !.code = 500]
    <3>1. call' = [call EXCEPT ![c] = k]
      BY <2>3 DEF Reply, TypeOK
    <3>2. CallRight(k, tm'[c])
      BY <1>0 DEF NoCall, CallRight
    <3> HIDE DEF k
    <3> QED
      BY <2>2, <3>1, <3>2, CallsRight
  <2>4. CASE call' = [call EXCEPT ![c] = [@ EXCEPT !.pc = "reply", !.code = 201, !.id = i]]
    <3> DEFINE k == [call[c] EXCEPT !.pc = "reply", !.code = 201, !.id = i]
    <3>1. k.pc = "reply" /\ k.code = 201 /\ k.from = call[c].from /\ k.job = call[c].job
      BY <1>0 DEF NoCall
    <3>2. call' = [call EXCEPT ![c] = k]
      BY <2>4
    <3> HIDE DEF k
    <3>3. CallRight(k, tm'[c])
      BY <2>0, <3>1 DEF CallRight
    <3> QED
      BY <2>2, <3>2, <3>3, CallsRight
  <2> QED
    BY <2>1, <2>3, <2>4
<1>8. ASSUME NEW route \in {"pause", "resume"}, NEW status, WriteStatus(c, route, status)
      PROVE  RunsOK'
  BY <1>8, OtherReply DEF WriteStatus
<1>9. CASE RemoveRow(c)
  BY <1>9, OtherReply DEF RemoveRow
<1>10. CASE Answered(c)
  <2>1. CallRight(NoCall, tm'[c])
    BY DEF CallRight, NoCall
  <2>2. call' = [call EXCEPT ![c] = NoCall] /\ UNCHANGED tm
    BY <1>10 DEF Answered
  <2> QED
    BY <2>1, <2>2, CallsRight
<1> QED
  BY <1>1, <1>2, <1>3, <1>4, <1>5, <1>6, <1>7, <1>8, <1>9, <1>10 DEF HandlerStep

LEMMA NextRunsOK ==
  ASSUME SharedTm = FALSE, TypeOK, RunsOK, [Next]_vars
  PROVE  RunsOK'
<1>1. ASSUME UNCHANGED <<call, tm>>
      PROVE  RunsOK'
  BY <1>1 DEF RunsOK
<1>2. CASE Tick \/ ExecutorWrites \/ UNCHANGED vars
  BY <1>1, <1>2 DEF Tick, ExecutorWrites, vars
<1>3. ASSUME NEW c \in Client, Post(c)
      PROVE  RunsOK'
  <2>1. PICK o \in Objects :
          call' = [call EXCEPT ![c] = [NoCall EXCEPT !.pc = "posted", !.post = TRUE,
                                                     !.obj = o, !.job = NewJob(Request(o), 0)]]
    BY <1>3 DEF Post
  <2> DEFINE k == [NoCall EXCEPT !.pc = "posted", !.post = TRUE, !.obj = o,
                                 !.job = NewJob(Request(o), 0)]
  <2>2. k.pc = "posted"
    BY DEF NoCall
  <2>3. call' = [call EXCEPT ![c] = k] /\ UNCHANGED tm
    BY <1>3, <2>1 DEF Post
  <2> HIDE DEF k
  <2>4. CallRight(k, tm'[c])
    BY <2>2 DEF CallRight
  <2> QED
    BY <2>3, <2>4, CallsRight
<1>4. ASSUME NEW c \in Client, ListJobs(c)
      PROVE  RunsOK'
  BY <1>4, OtherReply DEF ListJobs, Arrives
<1>5. ASSUME NEW c \in Client, RouteById(c)
      PROVE  RunsOK'
  <2>1. PICK i \in Id, route \in {"get", "pause", "resume", "delete"} :
          IF Code(route, i) = 0
          THEN call' = [call EXCEPT ![c] = [@ EXCEPT !.pc = route, !.id = i]]
          ELSE Reply(c, Code(route, i))
    BY <1>5 DEF RouteById
  <2>2. UNCHANGED tm /\ call[c].pc = "idle"
    BY <1>5 DEF RouteById, Arrives
  <2>3. CASE Code(route, i) = 0
    <3> DEFINE k == [call[c] EXCEPT !.pc = route, !.id = i]
    <3>1. route \in {"pause", "resume", "delete"}
      BY <2>1, <2>3 DEF Code
    <3>2. k.pc = route /\ k.post = call[c].post /\ ~call[c].post
      BY <2>2 DEF TypeOK, IsCall, NoCall, RunsOK, CallRight
    <3>3. call' = [call EXCEPT ![c] = k]
      BY <2>1, <2>3
    <3> HIDE DEF k
    <3>4. CallRight(k, tm'[c])
      BY <3>1, <3>2 DEF CallRight
    <3> QED
      BY <2>2, <3>3, <3>4, CallsRight
  <2>4. CASE Code(route, i) # 0
    BY <2>1, <2>2, <2>4, OtherReply
  <2> QED
    BY <2>3, <2>4
<1>6. ASSUME NEW c \in Client, HandlerStep(c)
      PROVE  RunsOK'
  BY <1>6, HandlerRuns
<1> QED
  BY <1>2, <1>3, <1>4, <1>5, <1>6 DEF Next

LEMMA RunsAlways ==
  ASSUME SharedTm = FALSE
  PROVE  Spec => []RunsOK
<1>1. ASSUME Init
      PROVE  RunsOK
  <2>1. \A t : CallRight(NoCall, t)
    BY DEF CallRight, NoCall
  <2>2. \A c \in Client : call[c] = NoCall
    BY <1>1 DEF Init
  <2> QED
    BY <2>1, <2>2 DEF RunsOK
<1>2. TypeOK /\ RunsOK /\ [Next]_vars => RunsOK'
  BY NextRunsOK
<1> QED
  BY <1>1, <1>2, ApiTypeCorrect, PTL DEF Spec

(***************************************************************************)
(* Where each thread has its own localtime buffer, a cron job's run is the *)
(* first matching minute, whatever the other threads scan meanwhile.       *)
(***************************************************************************)
THEOREM ScanFindsFirst ==
  ASSUME SharedTm = FALSE
  PROVE  Spec => []CronRunIsFirstMatch
<1>1. RunsOK => CronRunIsFirstMatch
  BY DEF RunsOK, CallRight, IsFirst, CronRunIsFirstMatch
<1> QED
  BY <1>1, RunsAlways, PTL

\* There, a job is created to run later, unless its period does not fit an int.
THEOREM RunsLater ==
  ASSUME SharedTm = FALSE
  PROVE  Spec => []RunIsLater
<1>1. RunsOK => RunIsLater
  BY DEF RunsOK, CallRight, IsLater, RunIsLater
<1> QED
  BY <1>1, RunsAlways, PTL

\* Of a cron expression with no more than five fields the two say the same.
LEMMA RunsHas ==
  ASSUME NEW type, NEW expr, NEW from, type = <<"cron">> => Len(expr) \in 0 .. 5
  PROVE  Runs(type, expr, from) <=> HasRun(type, expr, from)
BY DEF Runs, HasRun

\* There, create_job accepts exactly the requests that have a run.
THEOREM AcceptsWhatRuns ==
  ASSUME SharedTm = FALSE
  PROVE  Spec => []AcceptedIffItRuns
<1>1. RunsOK => AcceptedIffItRuns
  <2>1. ASSUME RunsOK, NEW c \in Client,
               call[c].pc = "reply" /\ call[c].post /\ call[c].code # 500,
               call[c].job.schedule_type = <<"cron">> =>
                 Len(call[c].job.schedule_expr) \in 0 .. 5
        PROVE  call[c].code = 201 <=>
                 /\ call[c].job.name # <<>> /\ call[c].job.execution_target # <<>>
                 /\ HasRun(call[c].job.schedule_type, call[c].job.schedule_expr, call[c].from)
    <3>1. call[c].code = 201 <=> Fit(call[c].job, call[c].from)
      BY <2>1 DEF RunsOK, CallRight
    <3>2. Runs(call[c].job.schedule_type, call[c].job.schedule_expr, call[c].from)
            <=> HasRun(call[c].job.schedule_type, call[c].job.schedule_expr, call[c].from)
      BY <2>1, RunsHas
    <3> QED
      BY <3>1, <3>2 DEF Fit
  <2> QED
    BY <2>1 DEF AcceptedIffItRuns
<1> QED
  BY <1>1, RunsAlways, PTL

=============================================================================
